---- MODULE Spec2Model ----
(***************************************************************************)
(* Verification model of the pindou bead-pattern tool: the pixel-art       *)
(* Quantizer (utils/pixelArt.js), the palette nearest-colour query         *)
(* (bead-recognition/colorDatabase.ts), the recognition controller         *)
(* (bead-recognition/controller.ts), the cell post-processing              *)
(* (GridAnalyzerV2.postProcess) and the grid detectors                     *)
(* (gridDetector.ts, gridDetectorV2.ts).                                   *)
(*                                                                         *)
(* Every subsystem has its own state variable and its own specification;   *)
(* a specification leaves the other subsystems' variables at Idle.         *)
(***************************************************************************)
EXTENDS Integers, Sequences, FiniteSets, TLC

VARIABLES qz, nq, rc, pp, gd, bs, ca, cc, nm, ag, bk, ed, ld, sv, cm, hk, bd

vars == <<qz, nq, rc, pp, gd, bs, ca, cc, nm, ag, bk, ed, ld, sv, cm, hk, bd>>

Idle == [pc |-> "idle"]

(***************************************************************************)
(* Bounds of the model.                                                    *)
(***************************************************************************)
\* largest image width and height (pixels) of the Quantizer's inputs
MaxImg == 3
\* largest target grid width and height (cells); the smallest is 2
MaxGrid == 3
\* largest palette length
MaxPal == 2
\* number of distinct pixel colours (grey levels 0 .. NumLevels-1)
NumLevels == 2
\* number of image patterns
MaxSeed == 2
\* largest Delta-E value of the distance tables
MaxDE == 2
\* largest row and column index of the lattice cells a detection reports
MaxCell == 1
\* largest number of beads a detection reports
MaxBeads == 2
\* Delta-E between two adjacent grey levels in the recognition runs
LevelDeltaE == 10
\* largest numbers of rows, of columns and of cells of a classified grid
MaxPostRows == 3
MaxPostCols == 3
MaxPostCells == 9
\* largest number of occupied cells classified with a confidence below 0.4
MaxLowConf == 1
\* largest number of empty cells classified with a contrast above 3
MaxHighContrast == 1
\* largest width and height of a grey image handed to the grid detectors
MaxSide == 24
MaxContrast == 32
MaxEdgeCount == 2
MaxLattice == 8
MaxOutliers == 2
MaxCands == 3
MaxScore == 2
MaxAgRows == 3
MaxAgCols == 3
MaxTileImg == 10
MaxTileGrid == 4
MaxEdRows == 2
MaxLoadCalls == 3
MaxRetriesArg == 3

(***************************************************************************)
(* Numbers.  A JavaScript number that is undefined or NaN is NaN here;     *)
(* every comparison with NaN is false.                                     *)
(***************************************************************************)
NaN == -1000000

Infinity == 1000000

Max2(a, b) == IF a > b THEN a ELSE b

Min2(a, b) == IF a < b THEN a ELSE b

\* a < b as JavaScript evaluates it
JsLess(a, b) == a # NaN /\ b # NaN /\ a < b

\* Math.floor(n / d) for d > 0
FloorDiv(n, d) == n \div d

\* Math.round(n / d) for n >= 0, d > 0: halves round up.  For the sizes within
\* the model's bounds the floating-point product x * (iw / W) is the exact
\* quotient, so the exact rounding is what the code computes.
JsRound(n, d) == (2 * n + d) \div (2 * d)

Levels == 0 .. (NumLevels - 1)

(***************************************************************************)
(* utils/pixelArt.js: the image buffer.  A pixel is a grey level; the      *)
(* buffer is row-major, index y * imgW + x.  A read outside the buffer     *)
(* yields undefined.                                                       *)
(***************************************************************************)
\* the image patterns the inputs are drawn from
ImagePattern(seed, iw, ih) ==
    [k \in 1 .. (iw * ih) |->
        (((k - 1) % iw) + seed * ((k - 1) \div iw) + (seed \div 2)) % NumLevels]

\* data[(y * imgW + x) * 4 ...]
ReadPixel(img, imgW, x, y) ==
    LET px == y * imgW + x
    IN  IF px >= 0 /\ px < Len(img) THEN img[px + 1] ELSE NaN

\* a margin without the lower limit of one pixel
EdgeMargin_NoMin(block) == FloorDiv(block * 15, 100)

\* Math.max(1, Math.floor(block * 0.15))
EdgeMargin(block) == Max2(1, FloorDiv(block * 15, 100))

\* the rectangle [sx, ex) x [sy, ey) the dominant and average modes scan
ScanRect(x0, y0, blockW, blockH, excludeEdge) ==
    IF excludeEdge
    THEN [sx |-> x0 + EdgeMargin(blockW), ex |-> x0 + blockW - EdgeMargin(blockW),
          sy |-> y0 + EdgeMargin(blockH), ey |-> y0 + blockH - EdgeMargin(blockH)]
    ELSE [sx |-> x0, ex |-> x0 + blockW, sy |-> y0, ey |-> y0 + blockH]

\* the pixels of a rectangle in scan order (row by row, left to right)
ScanPixels(img, imgW, r) ==
    LET w == Max2(0, r.ex - r.sx)
        h == Max2(0, r.ey - r.sy)
    IN  [k \in 1 .. (w * h) |->
            ReadPixel(img, imgW, r.sx + ((k - 1) % w), r.sy + ((k - 1) \div w))]

\* number of occurrences of v in s[1 .. n]
CountUpTo(s, n, v) == Cardinality({i \in 1 .. n : s[i] = v})

\* a loop in which a count that equals maxCount also changes the dominant colour
RECURSIVE DominantScan_LastTie(_, _, _, _)
DominantScan_LastTie(s, k, maxCount, dominant) ==
    IF k > Len(s) THEN dominant
    ELSE LET c == CountUpTo(s, k, s[k])
         IN  IF c >= maxCount
             THEN DominantScan_LastTie(s, k + 1, c, s[k])
             ELSE DominantScan_LastTie(s, k + 1, maxCount, dominant)

RECURSIVE DominantScan(_, _, _, _)
\* the loop of getDominantColor: colorCount[key]++, and the dominant colour
\* changes when a count exceeds maxCount
DominantScan(s, k, maxCount, dominant) ==
    IF k > Len(s) THEN dominant
    ELSE LET c == CountUpTo(s, k, s[k])
         IN  IF c > maxCount
             THEN DominantScan(s, k + 1, c, s[k])
             ELSE DominantScan(s, k + 1, maxCount, dominant)

getDominantColor(img, x0, y0, blockW, blockH, imgW, excludeEdge) ==
    DominantScan(ScanPixels(img, imgW, ScanRect(x0, y0, blockW, blockH, excludeEdge)),
                 1, 0, 0)

RECURSIVE SumSeq(_, _)
SumSeq(s, k) ==
    IF k > Len(s) THEN 0
    ELSE IF s[k] = NaN \/ SumSeq(s, k + 1) = NaN THEN NaN
    ELSE s[k] + SumSeq(s, k + 1)

getAverageColor(img, x0, y0, blockW, blockH, imgW, excludeEdge) ==
    LET s == ScanPixels(img, imgW, ScanRect(x0, y0, blockW, blockH, excludeEdge))
        total == SumSeq(s, 1)
    IN  IF Len(s) > 0
        THEN (IF total = NaN THEN NaN ELSE JsRound(total, Len(s)))
        ELSE 0

\* the offset (cx, cy) of the pixel the center mode reads
CenterOffset(blockW, blockH, excludeEdge) ==
    IF excludeEdge
    THEN [x |-> FloorDiv(blockW - 2 * EdgeMargin(blockW), 2) + EdgeMargin(blockW),
          y |-> FloorDiv(blockH - 2 * EdgeMargin(blockH), 2) + EdgeMargin(blockH)]
    ELSE [x |-> FloorDiv(blockW, 2), y |-> FloorDiv(blockH, 2)]

getCenterColor(img, x0, y0, blockW, blockH, imgW, excludeEdge) ==
    LET c == CenterOffset(blockW, blockH, excludeEdge)
    IN  ReadPixel(img, imgW, x0 + c.x, y0 + c.y)

\* an offset that rounds the 4/5 point to the nearest pixel
Diagonal45Offset_Rounded(blockW, blockH, excludeEdge) ==
    IF excludeEdge
    THEN [x |-> JsRound((blockW - 2 * EdgeMargin(blockW)) * 4, 5) + EdgeMargin(blockW),
          y |-> JsRound((blockH - 2 * EdgeMargin(blockH)) * 4, 5) + EdgeMargin(blockH)]
    ELSE [x |-> JsRound(blockW * 4, 5), y |-> JsRound(blockH * 4, 5)]

\* the offset (px, py) of the pixel the diagonal45 mode reads
Diagonal45Offset(blockW, blockH, excludeEdge) ==
    IF excludeEdge
    THEN [x |-> FloorDiv((blockW - 2 * EdgeMargin(blockW)) * 4, 5) + EdgeMargin(blockW),
          y |-> FloorDiv((blockH - 2 * EdgeMargin(blockH)) * 4, 5) + EdgeMargin(blockH)]
    ELSE [x |-> FloorDiv(blockW * 4, 5), y |-> FloorDiv(blockH * 4, 5)]

getDiagonal45Color(img, x0, y0, blockW, blockH, imgW, excludeEdge) ==
    LET c == Diagonal45Offset(blockW, blockH, excludeEdge)
    IN  ReadPixel(img, imgW, x0 + c.x, y0 + c.y)

(***************************************************************************)
(* Nearest palette colour.  The pixels are greys, for which Delta-E is the *)
(* lightness difference over a positive weight: it is 0 between equal      *)
(* levels and grows with the level difference.  A distance to NaN is NaN.  *)
(***************************************************************************)
\* diff(lab, paletteLab[j]) between two grey levels
DeltaE(a, b) ==
    IF a = NaN \/ b = NaN THEN NaN
    ELSE IF a >= b THEN a - b ELSE b - a

RECURSIVE PaletteScan(_, _, _, _)
\* the loop of generatePixelArt over paletteLab: d < minDist moves minIdx
\* (dists is 1-based, minIdx is the code's 0-based index)
PaletteScan(dists, j, minDist, minIdx) ==
    IF j >= Len(dists) THEN minIdx
    ELSE IF JsLess(dists[j + 1], minDist)
         THEN PaletteScan(dists, j + 1, dists[j + 1], j)
         ELSE PaletteScan(dists, j + 1, minDist, minIdx)

\* a scan that starts from no index at all (minIdx = -1)
QuantizerNearestIdx_NoDefault(dists) == PaletteScan(dists, 0, Infinity, -1)

\* let minDist = Infinity, minIdx = 0; for (j ...) ...
QuantizerNearestIdx(dists) == PaletteScan(dists, 0, Infinity, 0)

RECURSIVE ClosestScan_LastTie(_, _, _, _)
\* a scan that compares with <= and so keeps the last of equal distances
ClosestScan_LastTie(dists, i, bestDe, best) ==
    IF i >= Len(dists) THEN best
    ELSE IF dists[i + 1] <= bestDe
         THEN ClosestScan_LastTie(dists, i + 1, dists[i + 1], i)
         ELSE ClosestScan_LastTie(dists, i + 1, bestDe, best)

RECURSIVE ClosestScan(_, _, _, _)
\* the loop of ColorDatabase.findClosestColor from i = 1: de < bestDe moves best
ClosestScan(dists, i, bestDe, best) ==
    IF i >= Len(dists) THEN best
    ELSE IF JsLess(dists[i + 1], bestDe)
         THEN ClosestScan(dists, i + 1, dists[i + 1], i)
         ELSE ClosestScan(dists, i + 1, bestDe, best)

\* ColorDatabase.findClosestColor: null for an empty palette, else the index
\* (0-based) of the best colour and its Delta-E
findClosestColor(dists) ==
    IF Len(dists) = 0 THEN [isNull |-> TRUE, idx |-> 0, deltaE |-> 0]
    ELSE LET b == ClosestScan(dists, 1, dists[1], 0)
         IN  [isNull |-> FALSE, idx |-> b, deltaE |-> dists[b + 1]]

(***************************************************************************)
(* utils/pixelArt.js: generatePixelArt without pixelData.                  *)
(***************************************************************************)
Modes == {"dominant", "average", "center", "diagonal45", "original"}

Undefined == [name |-> 0, level |-> NaN]

\* colorTable.map(...): entry j of the palette, a record with its own name
PaletteOf(levels) == [j \in 1 .. Len(levels) |-> [name |-> j, level |-> levels[j]]]

\* palette[minIdx]
PaletteAt(palette, minIdx) ==
    IF minIdx + 1 \in 1 .. Len(palette) THEN palette[minIdx + 1] ELSE Undefined

\* blocks of one fixed size Math.round(blockW) x Math.round(blockH)
CellBlock_FixedSize(x, y, imgW, imgH, pixelWidth, pixelHeight) ==
    [x0 |-> x * JsRound(imgW, pixelWidth), y0 |-> y * JsRound(imgH, pixelHeight),
     w |-> Max2(1, JsRound(imgW, pixelWidth)),
     h |-> Max2(1, JsRound(imgH, pixelHeight))]

\* x0, y0, w, h of cell (x, y): Math.round(x * blockW) ... Math.max(1, x1 - x0)
CellBlock(x, y, imgW, imgH, pixelWidth, pixelHeight) ==
    LET x0 == JsRound(x * imgW, pixelWidth)
        y0 == JsRound(y * imgH, pixelHeight)
        x1 == JsRound((x + 1) * imgW, pixelWidth)
        y1 == JsRound((y + 1) * imgH, pixelHeight)
    IN  [x0 |-> x0, y0 |-> y0, w |-> Max2(1, x1 - x0), h |-> Max2(1, y1 - y0)]

\* the rgb sampled for cell (x, y) under colorMode
SampleCell(data, imgW, b, x, y, colorMode, excludeEdge) ==
    CASE colorMode = "diagonal45" ->
            getDiagonal45Color(data, b.x0, b.y0, b.w, b.h, imgW, excludeEdge)
      [] colorMode = "dominant" ->
            getDominantColor(data, b.x0, b.y0, b.w, b.h, imgW, excludeEdge)
      [] colorMode = "average" ->
            getAverageColor(data, b.x0, b.y0, b.w, b.h, imgW, excludeEdge)
      [] colorMode = "center" ->
            getCenterColor(data, b.x0, b.y0, b.w, b.h, imgW, excludeEdge)
      [] colorMode = "original" -> ReadPixel(data, imgW, x, y)
      [] OTHER -> getDominantColor(data, b.x0, b.y0, b.w, b.h, imgW, excludeEdge)

\* the number of cells the inner loop pushes into one row
RowCells(pixelWidth) == pixelWidth

\* the result grid: row y (1-based) holds the cells x (1-based)
PixelArtResult(in) ==
    LET original == in.mode = "original"
        data == IF original THEN ImagePattern(in.seed, in.W, in.H)
                ELSE ImagePattern(in.seed, in.iw, in.ih)
        imgW == IF original THEN in.W ELSE in.iw
        imgH == IF original THEN in.H ELSE in.ih
        palette == PaletteOf(in.pal)
        cell(x, y) ==
            LET b == CellBlock(x, y, imgW, imgH, in.W, in.H)
                rgb == SampleCell(data, imgW, b, x, y, in.mode, in.edge)
                dists == [j \in 1 .. Len(palette) |-> DeltaE(rgb, palette[j].level)]
            IN  PaletteAt(palette, QuantizerNearestIdx(dists))
    IN  [y \in 1 .. in.H |-> [x \in 1 .. RowCells(in.W) |-> cell(x - 1, y - 1)]]

\* the blocks the loop computes, by cell
PixelArtBlocks(in) ==
    LET original == in.mode = "original"
        imgW == IF original THEN in.W ELSE in.iw
        imgH == IF original THEN in.H ELSE in.ih
    IN  [y \in 0 .. (in.H - 1) |->
            [x \in 0 .. (in.W - 1) |-> CellBlock(x, y, imgW, imgH, in.W, in.H)]]

PalettesUpTo(n) == UNION {[1 .. k -> Levels] : k \in 1 .. n}

QuantInputs ==
    [iw : 1 .. MaxImg, ih : 1 .. MaxImg, W : 2 .. MaxGrid, H : 2 .. MaxGrid,
     mode : Modes, edge : BOOLEAN, seed : 0 .. MaxSeed,
     pal : PalettesUpTo(MaxPal)]

QuantInit ==
    /\ qz \in {[pc |-> "input", in |-> i, result |-> <<>>, blocks |-> <<>>] : i \in QuantInputs}
    /\ nq = Idle /\ rc = Idle /\ pp = Idle /\ gd = Idle
    /\ bs = Idle /\ ca = Idle /\ cc = Idle /\ nm = Idle /\ ag = Idle
    /\ bk = Idle /\ ed = Idle /\ ld = Idle /\ sv = Idle /\ cm = Idle
    /\ hk = Idle /\ bd = Idle

\* generatePixelArt({img, pixelWidth, pixelHeight, colorTable, colorMode, excludeEdge})
GeneratePixelArt ==
    /\ qz.pc = "input"
    /\ qz' = [qz EXCEPT !.pc = "done",
                        !.result = PixelArtResult(qz.in),
                        !.blocks = PixelArtBlocks(qz.in)]
    /\ UNCHANGED <<nq, rc, pp, gd, bs, ca, cc, nm, ag, bk, ed, ld, sv, cm, hk,
                 bd>>

QuantNext == GeneratePixelArt

SpecQuant == QuantInit /\ [][QuantNext]_vars

(***************************************************************************)
(* Claims about the Quantizer.                                             *)
(***************************************************************************)
\* C1: for every image size, target size W x H >= 2, sampling mode and
\* non-empty palette, generatePixelArt returns exactly H rows of exactly W
\* cells, and every cell is an entry of the input palette.
C1_GridShape ==
    qz.pc = "done" =>
        /\ Len(qz.result) = qz.in.H
        /\ \A y \in 1 .. Len(qz.result) :
              /\ Len(qz.result[y]) = qz.in.W
              /\ \A x \in 1 .. Len(qz.result[y]) :
                    \E j \in 1 .. Len(qz.in.pal) : qz.result[y][x] = PaletteOf(qz.in.pal)[j]

\* a finished run that upscales (W >= 2 * iw), whose last column reads outside
\* the image, with a two-entry palette
C1_Witness ==
    /\ qz.pc = "done"
    /\ qz.in.W >= 2 * qz.in.iw
    /\ qz.in.mode = "average"
    /\ Len(qz.in.pal) = 2
    /\ Len(qz.result) = qz.in.H

BlockInside(b, imgW, imgH) ==
    /\ 0 <= b.x0 /\ b.x0 + b.w <= imgW
    /\ 0 <= b.y0 /\ b.y0 + b.h <= imgH

\* C2: for every image size and target size, W > iw and H > ih included, every
\* cell block of the block-sampling modes lies fully inside the image.
C2_BlocksInsideImage ==
    (qz.pc = "done" /\ qz.in.mode # "original") =>
        \A y \in 0 .. (qz.in.H - 1) : \A x \in 0 .. (qz.in.W - 1) :
            BlockInside(qz.blocks[y][x], qz.in.iw, qz.in.ih)

(***************************************************************************)
(* The nearest-colour query on its own: a palette of n entries and a query *)
(* colour give a sequence of n Delta-E values (any values), which both     *)
(* implementations scan.                                                   *)
(***************************************************************************)
DistSeqs == UNION {[1 .. k -> 0 .. MaxDE] : k \in 0 .. (MaxPal + 1)}

NoMatch == [isNull |-> TRUE, idx |-> 0, deltaE |-> 0]

NearestInit ==
    /\ nq \in {[pc |-> "query", dists |-> d, dbDone |-> FALSE, db |-> NoMatch,
                scanDone |-> FALSE, scan |-> 0] : d \in DistSeqs}
    /\ qz = Idle /\ rc = Idle /\ pp = Idle /\ gd = Idle
    /\ bs = Idle /\ ca = Idle /\ cc = Idle /\ nm = Idle /\ ag = Idle
    /\ bk = Idle /\ ed = Idle /\ ld = Idle /\ sv = Idle /\ cm = Idle
    /\ hk = Idle /\ bd = Idle

\* database.findClosestColor(lab)
DbFindClosestColor ==
    /\ nq.pc = "query" /\ ~nq.dbDone
    /\ nq' = [nq EXCEPT !.dbDone = TRUE, !.db = findClosestColor(nq.dists)]
    /\ UNCHANGED <<qz, rc, pp, gd, bs, ca, cc, nm, ag, bk, ed, ld, sv, cm, hk,
                 bd>>

\* the Quantizer's scan of paletteLab for one cell
QuantizerPaletteScan ==
    /\ nq.pc = "query" /\ ~nq.scanDone
    /\ nq' = [nq EXCEPT !.scanDone = TRUE, !.scan = QuantizerNearestIdx(nq.dists)]
    /\ UNCHANGED <<qz, rc, pp, gd, bs, ca, cc, nm, ag, bk, ed, ld, sv, cm, hk,
                 bd>>

NearestNext == DbFindClosestColor \/ QuantizerPaletteScan

SpecNearest == NearestInit /\ [][NearestNext]_vars

\* entry i0 (0-based) has the minimal distance and is the first that has it
IsFirstArgmin(dists, i0) ==
    /\ i0 + 1 \in 1 .. Len(dists)
    /\ \A j \in 1 .. Len(dists) : dists[i0 + 1] <= dists[j]
    /\ \A j \in 1 .. i0 : dists[j] > dists[i0 + 1]

\* C3: for every non-empty palette and query colour, the nearest-colour query
\* returns an entry of minimal Delta-E, the first in insertion order among
\* those of minimal Delta-E, in ColorDatabase.findClosestColor and in the
\* Quantizer's palette scan alike.
C3_NearestIsFirstArgmin ==
    Len(nq.dists) > 0 =>
        /\ nq.dbDone =>
              /\ ~nq.db.isNull
              /\ IsFirstArgmin(nq.dists, nq.db.idx)
              /\ nq.db.deltaE = nq.dists[nq.db.idx + 1]
        /\ nq.scanDone => IsFirstArgmin(nq.dists, nq.scan)

\* both scans have answered a query whose minimum is shared by the second and
\* third entries while the first entry is farther away
C3_Witness ==
    /\ nq.dbDone /\ nq.scanDone
    /\ Len(nq.dists) = 3
    /\ nq.dists[1] > nq.dists[2] /\ nq.dists[2] = nq.dists[3]
    /\ nq.db.idx = 1 /\ nq.scan = 1

(***************************************************************************)
(* bead-recognition: ColorRecognizer.recognize for one bead.               *)
(* A confidence c is held as the integer 15 * c.                           *)
(***************************************************************************)
\* the colour name ColorRecognizer reports when the database has no match
UnknownName == 0

\* fallbackCluster() / the defaults of recognize: rgb (128,128,128), lab (50,0,0)
GreyLevel == NumLevels - 1

\* a confidence that is 0 whatever the distance
MatchConfidence_Zero(bestDe) == 0

\* bestDe < 2 ? 1 : Math.max(0, 1 - (bestDe - 2) / 15), times 15
MatchConfidence(bestDe) == IF bestDe < 2 THEN 15 ELSE Max2(0, 15 - (bestDe - 2))

\* database.findClosestColor(lab) for a bead of grey level lv
DatabaseMatch(lv, pal) ==
    findClosestColor([j \in 1 .. Len(pal) |-> LevelDeltaE * DeltaE(lv, pal[j])])

\* a recognize that reads match.beadColor without the null check
RecognizeColor_NoNullCheck(lv, pal) ==
    LET match == DatabaseMatch(lv, pal)
    IN  IF match.isNull
        THEN [throws |-> TRUE, level |-> lv, name |-> UnknownName, confidence |-> 0,
              deltaE |-> 999]
        ELSE [throws |-> FALSE, level |-> lv, name |-> match.idx + 1,
              confidence |-> MatchConfidence(match.deltaE), deltaE |-> match.deltaE]

\* ColorRecognizer.recognize from the dominant colour on: lv is the dominant
\* level the clustering gave (GreyLevel when it failed)
RecognizeColor(lv, pal) ==
    LET match == DatabaseMatch(lv, pal)
    IN  IF match.isNull
        THEN [throws |-> FALSE, level |-> lv, name |-> UnknownName, confidence |-> 0,
              deltaE |-> 999]
        ELSE [throws |-> FALSE, level |-> lv, name |-> match.idx + 1,
              confidence |-> MatchConfidence(match.deltaE), deltaE |-> match.deltaE]

(***************************************************************************)
(* bead-recognition: the grid-based BeadDetector the controller calls.     *)
(* Its getOccupiedGridCoordinates and getGridParameters are not among the  *)
(* repository's files; they follow the specification's section 4.H: the    *)
(* occupied cells in row-major order, normalised so that the smallest      *)
(* occupied row and column are 0, and rows and cols set accordingly.       *)
(***************************************************************************)
RecCells == (0 .. MaxCell) \X (0 .. MaxCell)

\* the sets of occupied lattice cells a detection can report
DetectOutcomes == {S \in SUBSET RecCells : Cardinality(S) <= MaxBeads}

RECURSIVE RowMajor(_)
RowMajor(S) ==
    IF S = {} THEN <<>>
    ELSE LET m == CHOOSE c \in S :
                    \A d \in S : c[1] < d[1] \/ (c[1] = d[1] /\ c[2] <= d[2])
         IN  <<m>> \o RowMajor(S \ {m})

SetMin(S) == CHOOSE a \in S : \A b \in S : a <= b

SetMax(S) == CHOOSE a \in S : \A b \in S : a >= b

\* the dominant grey level of the bead in lattice cell c
BeadLevel(c) == (c[1] + c[2]) % NumLevels

\* detector.getOccupiedGridCoordinates()
OccupiedGridCoordinates(S) ==
    LET minRow == SetMin({c[1] : c \in S})
        minCol == SetMin({c[2] : c \in S})
        cs == RowMajor(S)
    IN  [k \in 1 .. Len(cs) |->
            [row |-> cs[k][1] - minRow, col |-> cs[k][2] - minCol,
             level |-> BeadLevel(cs[k])]]

NullGrid == [isNull |-> TRUE, rows |-> 0, cols |-> 0]

\* detector.getGridParameters()
GridParametersOf(S, hasGrid) ==
    IF hasGrid /\ S # {}
    THEN [isNull |-> FALSE,
          rows |-> SetMax({c[1] : c \in S}) - SetMin({c[1] : c \in S}) + 1,
          cols |-> SetMax({c[2] : c \in S}) - SetMin({c[2] : c \in S}) + 1]
    ELSE NullGrid

(***************************************************************************)
(* bead-recognition: BeadRecognitionController.recognize, one action per   *)
(* stretch of code between two awaits, and one per iteration of the colour *)
(* loop.  rc.cancel is an external cancel signal of the caller: the        *)
(* controller has no parameter or field for it and none of its code reads  *)
(* it.  rc.fault records which step the environment made fail, if any,     *)
(* and rc.clusterFailed, bead by bead, whether the clustering of           *)
(* ColorRecognizer.recognize came back without a cluster of its own.       *)
(* The controller is a fresh one, as useBeadRecognition.recognize makes    *)
(* for every run, so the progress callback of its ImageInput is not set    *)
(* while the image loads.                                                  *)
(***************************************************************************)
NoCancel == [fired |-> FALSE, at |-> "never"]

NoDetection == [threw |-> FALSE, cells |-> {}, beads |-> 0, coords |-> <<>>,
                grid |-> NullGrid]

NoResult == [returned |-> FALSE, success |-> FALSE, beads |-> <<>>, gridRows |-> 0,
             gridCols |-> 0, totalBeads |-> 0, errors |-> <<>>]

\* the palettes of the recognition runs: the first n grey levels
RecPalettes == {[j \in 1 .. n |-> (j - 1) % NumLevels] : n \in 0 .. MaxPal}

\* this.report(progress, stage)
Report(progress, p) == Append(progress, p)

\* a per-cell progress value that starts from 0 instead of 55
CellProgress_FromZero(i, total) == FloorDiv(95 * (i + 1), total)

\* 55 + Math.floor((40 * (i + 1)) / total)
CellProgress(i, total) == 55 + FloorDiv(40 * (i + 1), total)

\* a failure result that drops the error messages
failResult_NoMessage(errors) ==
    [returned |-> TRUE, success |-> FALSE, beads |-> <<>>, gridRows |-> 0,
     gridCols |-> 0, totalBeads |-> 0, errors |-> <<>>]

\* failResult(errors, startTime)
failResult(errors) ==
    [returned |-> TRUE, success |-> FALSE, beads |-> <<>>, gridRows |-> 0,
     gridCols |-> 0, totalBeads |-> 0, errors |-> errors]

\* a row count that takes the largest row index itself when gridParams is null
ResultRows_NoPlusOne(gridParams, beadsData) ==
    IF ~gridParams.isNull THEN gridParams.rows
    ELSE IF Len(beadsData) > 0
         THEN SetMax({beadsData[k].row : k \in 1 .. Len(beadsData)})
         ELSE 0

\* gridParams ? gridParams.rows : (beadsData.length > 0 ? max(row) + 1 : 0)
ResultRows(gridParams, beadsData) ==
    IF ~gridParams.isNull THEN gridParams.rows
    ELSE IF Len(beadsData) > 0
         THEN SetMax({beadsData[k].row : k \in 1 .. Len(beadsData)}) + 1
         ELSE 0

ResultCols(gridParams, beadsData) ==
    IF ~gridParams.isNull THEN gridParams.cols
    ELSE IF Len(beadsData) > 0
         THEN SetMax({beadsData[k].col : k \in 1 .. Len(beadsData)}) + 1
         ELSE 0

RecogInit ==
    /\ rc \in {[pc |-> "ready", pal |-> p, inputCb |-> FALSE, progress |-> <<>>,
                fault |-> "none", clusterFailed |-> <<>>,
                cancel |-> NoCancel, det |-> NoDetection, i |-> 0,
                beadsData |-> <<>>, result |-> NoResult] : p \in RecPalettes}
    /\ qz = Idle /\ nq = Idle /\ pp = Idle /\ gd = Idle
    /\ bs = Idle /\ ca = Idle /\ cc = Idle /\ nm = Idle /\ ag = Idle
    /\ bk = Idle /\ ed = Idle /\ ld = Idle /\ sv = Idle /\ cm = Idle
    /\ hk = Idle /\ bd = Idle

\* recognize up to the await of input.loadAndPreprocess(file)
StartRecognize ==
    /\ rc.pc = "ready"
    /\ rc' = [rc EXCEPT !.pc = "loading", !.progress = Report(rc.progress, 5)]
    /\ UNCHANGED <<qz, nq, pp, gd, bs, ca, cc, nm, ag, bk, ed, ld, sv, cm, hk,
                 bd>>

\* loadAndPreprocess rejects: the catch block of the first try
LoadRejects ==
    /\ rc.pc = "loading"
    /\ rc' = [rc EXCEPT !.pc = "done", !.fault = "load",
                     !.result = failResult(<<"load">>)]
    /\ UNCHANGED <<qz, nq, pp, gd, bs, ca, cc, nm, ag, bk, ed, ld, sv, cm, hk,
                 bd>>

\* loadAndPreprocess resolves: recognize up to the await of detector.detect
LoadResolves ==
    /\ rc.pc = "loading"
    /\ \E cvDefined \in BOOLEAN, matOk \in BOOLEAN :
          IF ~cvDefined
          THEN rc' = [rc EXCEPT !.pc = "done", !.inputCb = TRUE, !.fault = "cv",
                                !.result = failResult(<<"cv">>)]
          ELSE IF ~matOk
          THEN rc' = [rc EXCEPT !.pc = "done", !.inputCb = TRUE, !.fault = "mat",
                                !.progress = Report(rc.progress, 25),
                                !.result = failResult(<<"mat">>)]
          ELSE rc' = [rc EXCEPT !.pc = "detecting", !.inputCb = TRUE,
                                !.progress = Report(rc.progress, 25)]
    /\ UNCHANGED <<qz, nq, pp, gd, bs, ca, cc, nm, ag, bk, ed, ld, sv, cm, hk,
                 bd>>

\* the promise of detector.detect settles; recognize has not resumed yet
DetectSettles ==
    /\ rc.pc = "detecting"
    /\ \E S \in DetectOutcomes, hasGrid \in BOOLEAN, threw \in BOOLEAN :
          rc' = [rc EXCEPT !.pc = "detected",
                           !.fault = IF threw THEN "detect" ELSE "none",
                           !.det = IF threw
                                   THEN [NoDetection EXCEPT !.threw = TRUE]
                                   ELSE [threw |-> FALSE, cells |-> S,
                                         beads |-> Cardinality(S),
                                         coords |-> OccupiedGridCoordinates(S),
                                         grid |-> GridParametersOf(S, hasGrid)]]
    /\ UNCHANGED <<qz, nq, pp, gd, bs, ca, cc, nm, ag, bk, ed, ld, sv, cm, hk,
                 bd>>

\* a resumption that looks at the cancel signal first and gives up with Cancelled
ResumeAfterDetect_ChecksCancel ==
    /\ rc.pc = "detected"
    /\ IF rc.cancel.fired
       THEN rc' = [rc EXCEPT !.pc = "done", !.result = failResult(<<"Cancelled">>)]
       ELSE IF rc.det.threw
       THEN rc' = [rc EXCEPT !.pc = "done", !.result = failResult(<<"thrown">>)]
       ELSE IF rc.det.beads = 0
       THEN rc' = [rc EXCEPT !.pc = "done", !.result = failResult(<<"nobeads">>)]
       ELSE rc' = [rc EXCEPT !.pc = "coloring", !.i = 0,
                             !.progress = Report(Report(rc.progress, 45), 55)]
    /\ UNCHANGED <<qz, nq, pp, gd, bs, ca, cc, nm, ag, bk, ed, ld, sv, cm, hk,
                 bd>>

\* recognize from the await of detector.detect to the head of the colour loop
ResumeAfterDetect ==
    /\ rc.pc = "detected"
    /\ IF rc.det.threw
       THEN rc' = [rc EXCEPT !.pc = "done", !.result = failResult(<<"thrown">>)]
       ELSE IF rc.det.beads = 0
       THEN rc' = [rc EXCEPT !.pc = "done", !.result = failResult(<<"nobeads">>)]
       ELSE rc' = [rc EXCEPT !.pc = "coloring", !.i = 0,
                             !.progress = Report(Report(rc.progress, 45), 55)]
    /\ UNCHANGED <<qz, nq, pp, gd, bs, ca, cc, nm, ag, bk, ed, ld, sv, cm, hk,
                 bd>>

\* one iteration of the colour loop; the last one runs on to the return
ColorCell ==
    /\ rc.pc = "coloring"
    /\ rc.i < Len(rc.det.coords)
    /\ \E clusterOk \in BOOLEAN, throws \in BOOLEAN :
          LET total == Len(rc.det.coords)
              gc == rc.det.coords[rc.i + 1]
              recognized == RecognizeColor(IF clusterOk THEN gc.level ELSE GreyLevel,
                                           rc.pal)
              beadsData == Append(rc.beadsData,
                                  [row |-> gc.row, col |-> gc.col,
                                   color |-> recognized.level,
                                   colorName |-> recognized.name,
                                   confidence |-> recognized.confidence])
              reported == IF rc.i % 100 = 0 \/ rc.i = total - 1
                          THEN Report(rc.progress, CellProgress(rc.i, total))
                          ELSE rc.progress
          IN  IF throws \/ recognized.throws
              THEN rc' = [rc EXCEPT !.pc = "done",
                                    !.fault = IF throws THEN "color" ELSE "none",
                                    !.result = failResult(<<"thrown">>)]
              ELSE IF rc.i + 1 < total
              THEN rc' = [rc EXCEPT !.i = rc.i + 1, !.beadsData = beadsData,
                                    !.clusterFailed = Append(@, ~clusterOk),
                                    !.progress = reported]
              ELSE rc' = [rc EXCEPT
                            !.pc = "done", !.i = rc.i + 1, !.beadsData = beadsData,
                            !.clusterFailed = Append(@, ~clusterOk),
                            !.progress = Report(reported, 100),
                            !.result =
                               [returned |-> TRUE, success |-> TRUE,
                                beads |-> beadsData,
                                gridRows |-> ResultRows(rc.det.grid, beadsData),
                                gridCols |-> ResultCols(rc.det.grid, beadsData),
                                totalBeads |-> Len(beadsData), errors |-> <<>>]]
    /\ UNCHANGED <<qz, nq, pp, gd, bs, ca, cc, nm, ag, bk, ed, ld, sv, cm, hk,
                 bd>>

\* the caller raises its cancel signal while a run is under way
FireCancel ==
    /\ rc.pc \in {"loading", "detecting", "detected", "coloring"}
    /\ ~rc.cancel.fired
    /\ rc' = [rc EXCEPT !.cancel = [fired |-> TRUE, at |-> rc.pc]]
    /\ UNCHANGED <<qz, nq, pp, gd, bs, ca, cc, nm, ag, bk, ed, ld, sv, cm, hk,
                 bd>>

RecogNext ==
    \/ StartRecognize
    \/ LoadRejects
    \/ LoadResolves
    \/ DetectSettles
    \/ ResumeAfterDetect
    \/ ColorCell
    \/ FireCancel

SpecRecog == RecogInit /\ [][RecogNext]_vars

\* the run returned a successful result
RecSucceeded == rc.pc = "done" /\ rc.result.returned /\ rc.result.success

\* the largest progress value reported so far (0 when none)
MaxProgress == SetMax({0} \cup {rc.progress[k] : k \in 1 .. Len(rc.progress)})

CellRow(k, cols) == (k - 1) \div cols

CellCol(k, cols) == (k - 1) % cols

\* grid.get(`${row},${col}`)?.isOccupied
OccupiedAt(cells, rows, cols, row, col) ==
    /\ row \in 0 .. (rows - 1)
    /\ col \in 0 .. (cols - 1)
    /\ cells[row * cols + col + 1].isOccupied

\* getNeighborCount(row, col)
getNeighborCount(cells, rows, cols, row, col) ==
    Cardinality({d \in {<<-1, 0>>, <<1, 0>>, <<0, -1>>, <<0, 1>>} :
                    OccupiedAt(cells, rows, cols, row + d[1], col + d[2])})

\* get8NeighborCount(row, col)
get8NeighborCount(cells, rows, cols, row, col) ==
    Cardinality({d \in ((-1 .. 1) \X (-1 .. 1)) \ {<<0, 0>>} :
                    OccupiedAt(cells, rows, cols, row + d[1], col + d[2])})

\* first loop of postProcess from the k-th cell on: each cell is judged
\* against the list as the cells before it left it
RECURSIVE RemovePass(_, _, _, _)
RemovePass(cells, rows, cols, k) ==
    IF k > Len(cells) THEN cells
    ELSE LET cell == cells[k]
             neighbors4 == getNeighborCount(cells, rows, cols,
                                            CellRow(k, cols), CellCol(k, cols))
             neighbors8 == get8NeighborCount(cells, rows, cols,
                                             CellRow(k, cols), CellCol(k, cols))
             cleared == [cells EXCEPT ![k].isOccupied = FALSE,
                                      ![k].confidence = 0]
         IN  IF ~cell.isOccupied
             THEN RemovePass(cells, rows, cols, k + 1)
             ELSE IF neighbors4 = 0 /\ neighbors8 < 2
             THEN RemovePass(cleared, rows, cols, k + 1)
             ELSE IF neighbors4 <= 1 /\ cell.confidence < 40
             THEN RemovePass(cleared, rows, cols, k + 1)
             ELSE RemovePass(cells, rows, cols, k + 1)

\* a second loop that fills a surrounded cell only when its contrast is above 4
RECURSIVE FillPass_HigherContrast(_, _, _, _)
FillPass_HigherContrast(cells, rows, cols, k) ==
    IF k > Len(cells) THEN cells
    ELSE LET cell == cells[k]
             neighbors4 == getNeighborCount(cells, rows, cols,
                                            CellRow(k, cols), CellCol(k, cols))
         IN  IF ~cell.isOccupied /\ neighbors4 = 4 /\ cell.contrast > 4
             THEN FillPass_HigherContrast(
                      [cells EXCEPT ![k].isOccupied = TRUE, ![k].confidence = 50],
                      rows, cols, k + 1)
             ELSE FillPass_HigherContrast(cells, rows, cols, k + 1)

\* second loop of postProcess from the k-th cell on
RECURSIVE FillPass(_, _, _, _)
FillPass(cells, rows, cols, k) ==
    IF k > Len(cells) THEN cells
    ELSE LET cell == cells[k]
             neighbors4 == getNeighborCount(cells, rows, cols,
                                            CellRow(k, cols), CellCol(k, cols))
         IN  IF ~cell.isOccupied /\ neighbors4 = 4 /\ cell.contrast > 3
             THEN FillPass([cells EXCEPT ![k].isOccupied = TRUE,
                                         ![k].confidence = 50],
                           rows, cols, k + 1)
             ELSE FillPass(cells, rows, cols, k + 1)

\* postProcess(cells, rows, cols)
postProcess(cells, rows, cols) ==
    FillPass(RemovePass(cells, rows, cols, 1), rows, cols, 1)

\* the cells classifyWithAdaptiveThreshold hands over: occupied on contrast
\* alone (score above 0.4), occupied on contrast and saturation (score from
\* 0.373 on), or empty with contrast 3 or 4
OccupiedLow == [isOccupied |-> TRUE, confidence |-> 38, contrast |-> 4]

OccupiedHigh == [isOccupied |-> TRUE, confidence |-> 60, contrast |-> 9]

EmptyFlat == [isOccupied |-> FALSE, confidence |-> 20, contrast |-> 3]

EmptyContrasty == [isOccupied |-> FALSE, confidence |-> 20, contrast |-> 4]

CountOf(cells, kind) == Cardinality({k \in 1 .. Len(cells) : cells[k] = kind})

ClassifiedGrids(rows, cols) ==
    {cells \in [1 .. (rows * cols) ->
                    {OccupiedLow, OccupiedHigh, EmptyFlat, EmptyContrasty}] :
        /\ CountOf(cells, OccupiedLow) <= MaxLowConf
        /\ CountOf(cells, EmptyContrasty) <= MaxHighContrast}

PostInit ==
    /\ \E rows \in 1 .. MaxPostRows, cols \in 1 .. MaxPostCols :
          /\ rows * cols <= MaxPostCells
          /\ \E cells \in ClassifiedGrids(rows, cols) :
                pp = [pc |-> "classified", rows |-> rows, cols |-> cols,
                      input |-> cells, cells |-> cells]
    /\ qz = Idle /\ nq = Idle /\ rc = Idle /\ gd = Idle
    /\ bs = Idle /\ ca = Idle /\ cc = Idle /\ nm = Idle /\ ag = Idle
    /\ bk = Idle /\ ed = Idle /\ ld = Idle /\ sv = Idle /\ cm = Idle
    /\ hk = Idle /\ bd = Idle

\* analyzeGrid: const cleaned = this.postProcess(result, grid.rows, grid.cols)
PostProcess ==
    /\ pp.pc = "classified"
    /\ pp' = [pp EXCEPT !.pc = "cleaned",
                        !.cells = postProcess(pp.cells, pp.rows, pp.cols)]
    /\ UNCHANGED <<qz, nq, rc, gd, bs, ca, cc, nm, ag, bk, ed, ld, sv, cm, hk,
                 bd>>

PostNext == PostProcess

SpecPost == PostInit /\ [][PostNext]_vars

\* C7: after post-processing no occupied cell has zero occupied 4-neighbours
\* together with at most one occupied 8-neighbour.
C7_NoIsolatedOccupied ==
    pp.pc = "cleaned"
        => \A k \in 1 .. Len(pp.cells) :
              pp.cells[k].isOccupied
                 => ~(/\ getNeighborCount(pp.cells, pp.rows, pp.cols,
                                          CellRow(k, pp.cols),
                                          CellCol(k, pp.cols)) = 0
                      /\ get8NeighborCount(pp.cells, pp.rows, pp.cols,
                                           CellRow(k, pp.cols),
                                           CellCol(k, pp.cols)) <= 1)

\* C8: after post-processing no empty cell has all four 4-neighbours occupied
\* while its contrast is greater than 3.
C8_NoFillableHole ==
    pp.pc = "cleaned"
        => \A k \in 1 .. Len(pp.cells) :
              ~pp.cells[k].isOccupied
                 => ~(/\ getNeighborCount(pp.cells, pp.rows, pp.cols,
                                          CellRow(k, pp.cols),
                                          CellCol(k, pp.cols)) = 4
                      /\ pp.cells[k].contrast > 3)

C8_Witness ==
    /\ pp.pc = "cleaned"
    /\ \E k \in 1 .. Len(pp.cells) :
          /\ pp.input[k] = EmptyContrasty
          /\ pp.cells[k].isOccupied
          /\ pp.cells[k].confidence = 50

(***************************************************************************)
(* bead-recognition: GridDetector (autocorrelation of the projections) and *)
(* the projection fallback of GridDetectorV2.  An autocorrelation is held  *)
(* as the integers 100 * autocorr[lag]; positions and pitches of a grid    *)
(* are held in units of 1/40 pixel, so that 0.45 * spacing and the mean of *)
(* two integer pitches are integers.                                       *)
(***************************************************************************)
\* DEFAULT_CONFIG of GridDetector
minSpacing == 12

maxSpacing == 50

originSearchStep == 2

\* findPeriodByAutocorrelation(colProj, 12, 40)
minPeriod == 12

maxPeriod == 40

\* validateImage: naturalWidth >= 20 && naturalHeight >= 20
MinSide == 20

\* autocorr[lag] ?? 0
At(autocorr, lag) == IF lag \in DOMAIN autocorr THEN autocorr[lag] ELSE 0

\* curr > prev && curr > next
IsLocalMax(autocorr, lag) ==
    At(autocorr, lag) > At(autocorr, lag - 1)
        /\ At(autocorr, lag) > At(autocorr, lag + 1)

\* curr < prev && curr < next
IsValley(autocorr, lag) ==
    At(autocorr, lag) < At(autocorr, lag - 1)
        /\ At(autocorr, lag) < At(autocorr, lag + 1)

\* Math.min(maxLag, autocorr.length - 2)
SearchMax(autocorr, maxLag) == Min2(maxLag, Cardinality(DOMAIN autocorr) - 2)

\* a fallback that answers the smallest lag when it finds nothing
RECURSIVE findSpacingByGradient_MinLag(_, _, _, _)
findSpacingByGradient_MinLag(autocorr, lag, minLag, maxLag) ==
    LET searchMax == SearchMax(autocorr, maxLag)
        peaks == {lag2 \in (lag + 1) .. searchMax : IsLocalMax(autocorr, lag2)}
    IN  IF lag > searchMax - 1 THEN minLag
        ELSE IF IsValley(autocorr, lag) /\ peaks # {} THEN SetMin(peaks)
        ELSE findSpacingByGradient_MinLag(autocorr, lag + 1, minLag, maxLag)

\* findSpacingByGradient, its outer loop from lag on
RECURSIVE findSpacingByGradient(_, _, _, _)
findSpacingByGradient(autocorr, lag, minLag, maxLag) ==
    LET searchMax == SearchMax(autocorr, maxLag)
        peaks == {lag2 \in (lag + 1) .. searchMax : IsLocalMax(autocorr, lag2)}
    IN  IF lag > searchMax - 1 THEN (minLag + maxLag) \div 2
        ELSE IF IsValley(autocorr, lag) /\ peaks # {} THEN SetMin(peaks)
        ELSE findSpacingByGradient(autocorr, lag + 1, minLag, maxLag)

\* the loop of findFirstPeak from lag on
RECURSIVE PeakScan(_, _, _, _, _)
PeakScan(autocorr, lag, searchMax, bestValue, bestLag) ==
    IF lag > searchMax THEN [bestValue |-> bestValue, bestLag |-> bestLag]
    ELSE IF IsLocalMax(autocorr, lag) /\ At(autocorr, lag) > bestValue
    THEN PeakScan(autocorr, lag + 1, searchMax, At(autocorr, lag), lag)
    ELSE PeakScan(autocorr, lag + 1, searchMax, bestValue, bestLag)

\* findFirstPeak(autocorr, minLag, maxLag)
findFirstPeak(autocorr, minLag, maxLag) ==
    LET best == PeakScan(autocorr, minLag, SearchMax(autocorr, maxLag), 0,
                         (minLag + maxLag) \div 2)
    IN  IF best.bestValue < 10
        THEN findSpacingByGradient(autocorr, minLag, minLag, maxLag)
        ELSE best.bestLag

\* the autocorrelation has a local maximum at a lag findFirstPeak looks at
HasPeak(autocorr, minLag, maxLag) ==
    \E lag \in minLag .. SearchMax(autocorr, maxLag) : IsLocalMax(autocorr, lag)

\* the loop of findPeriodByAutocorrelation from lag on; sums[lag] is the
\* sum of signal[i] * signal[i + lag]
RECURSIVE PeriodScan(_, _, _, _, _)
PeriodScan(sums, lag, n, bestValue, bestLag) ==
    IF lag > maxPeriod \/ 2 * lag > n THEN bestLag
    ELSE IF At(sums, lag) > bestValue
    THEN PeriodScan(sums, lag + 1, n, At(sums, lag), lag)
    ELSE PeriodScan(sums, lag + 1, n, bestValue, bestLag)

\* findPeriodByAutocorrelation(signal, minPeriod, maxPeriod)
findPeriodByAutocorrelation(sums, n) ==
    PeriodScan(sums, minPeriod, n, 0, (minPeriod + maxPeriod) \div 2)

\* some lag findPeriodByAutocorrelation looks at has a positive sum
HasPeriod(sums, n) ==
    \E lag \in minPeriod .. maxPeriod : 2 * lag <= n /\ At(sums, lag) > 0

\* the autocorrelations of a projection of n pixels: zero (a uniform image)
\* but for one lag p with a weak (0.05) or a clear (0.2) value and one lag q
\* with a negative value
Profiles(n) ==
    {[lag \in 0 .. (n - 1) |->
         IF lag = p THEN h ELSE IF lag = q THEN -10 ELSE 0] :
        p \in {-1} \cup ((minSpacing - 1) .. (n - 1)),
        h \in {5, 20},
        q \in {-1} \cup ((minSpacing - 1) .. (n - 1))}

\* detectSpacingByProjection: the pitches it can answer for n pixels, each
\* with whether the autocorrelation had a peak
SpacingOutcomes(n) ==
    {[spacing |-> findFirstPeak(a, minSpacing, maxSpacing),
      peak |-> HasPeak(a, minSpacing, maxSpacing)] : a \in Profiles(n)}

PeriodOutcomes(n) ==
    {[spacing |-> findPeriodByAutocorrelation(a, n), peak |-> HasPeriod(a, n)] :
        a \in Profiles(n)}

\* detectOrigin: the origins it can answer.  The loops offer radius + 2j
\* below the pitch on each axis; the first offer is taken as it comes, a
\* later one only with a higher score, which needs a cell it can score.
OriginOffers(spacing2) ==
    {9 * spacing2 + 40 * originSearchStep * j : j \in 0 .. spacing2} \cap
        (0 .. (20 * spacing2 - 1))

HasCells(o, side, spacing2) == o < 40 * side - 9 * spacing2

detectOrigin(cols, rows, spacing2) ==
    {o \in OriginOffers(spacing2) \X OriginOffers(spacing2) :
        \/ o = <<9 * spacing2, 9 * spacing2>>
        \/ HasCells(o[1], cols, spacing2) /\ HasCells(o[2], rows, spacing2)}

\* Math.abs(a - b)
Abs(a) == IF a < 0 THEN 0 - a ELSE a

\* Math.max(0, 1 - spacingDiff * 2) with spacingDiff = |sx - sy| / spacing,
\* as the fraction num / den
SpacingConfidence(sx, sy) ==
    [num |-> Max2(0, (sx + sy) - 4 * Abs(sx - sy)), den |-> sx + sy]

NoGrid == [error |-> "none", spacing |-> 0, originX |-> 0, originY |-> 0,
           rows |-> 0, cols |-> 0, confidence |-> [num |-> 0, den |-> 1]]

\* the grey images handed to a detector: their sizes
GridInit ==
    /\ gd \in {[pc |-> "gray", method |-> m, cols |-> c, rows |-> r,
                peakX |-> FALSE, peakY |-> FALSE, result |-> NoGrid] :
                  m \in {"GridDetector", "GridDetectorV2"},
                  c \in MinSide .. MaxSide, r \in MinSide .. MaxSide}
    /\ qz = Idle /\ nq = Idle /\ rc = Idle /\ pp = Idle
    /\ bs = Idle /\ ca = Idle /\ cc = Idle /\ nm = Idle /\ ag = Idle
    /\ bk = Idle /\ ed = Idle /\ ld = Idle /\ sv = Idle /\ cm = Idle
    /\ hk = Idle /\ bd = Idle

\* GridDetector.detect(gray)
GridDetectorDetect ==
    /\ gd.pc = "gray"
    /\ gd.method = "GridDetector"
    /\ \E sx \in SpacingOutcomes(gd.cols), sy \in SpacingOutcomes(gd.rows) :
          LET spacing2 == sx.spacing + sy.spacing
          IN  \E origin \in detectOrigin(gd.cols, gd.rows, spacing2) :
                 gd' = [gd EXCEPT
                          !.pc = "done", !.peakX = sx.peak, !.peakY = sy.peak,
                          !.result =
                             [error |-> "none", spacing |-> 20 * spacing2,
                              originX |-> origin[1], originY |-> origin[2],
                              rows |-> FloorDiv(40 * gd.rows - origin[2],
                                                20 * spacing2),
                              cols |-> FloorDiv(40 * gd.cols - origin[1],
                                                20 * spacing2),
                              confidence |->
                                 SpacingConfidence(sx.spacing, sy.spacing)]]
    /\ UNCHANGED <<qz, nq, rc, pp, bs, ca, cc, nm, ag, bk, ed, ld, sv, cm, hk,
                 bd>>

\* GridDetectorV2.detect(gray, color) with fewer than 50 candidates, which
\* returns detectByProjection(gray)
DetectByProjection ==
    /\ gd.pc = "gray"
    /\ gd.method = "GridDetectorV2"
    /\ \E s \in PeriodOutcomes(gd.cols) :
          gd' = [gd EXCEPT
                   !.pc = "done", !.peakX = s.peak, !.peakY = s.peak,
                   !.result =
                      [error |-> "none", spacing |-> 40 * s.spacing,
                       originX |-> 20 * s.spacing, originY |-> 20 * s.spacing,
                       rows |-> FloorDiv(gd.rows - s.spacing, s.spacing),
                       cols |-> FloorDiv(gd.cols - s.spacing, s.spacing),
                       confidence |-> [num |-> 1, den |-> 2]]]
    /\ UNCHANGED <<qz, nq, rc, pp, bs, ca, cc, nm, ag, bk, ed, ld, sv, cm, hk,
                 bd>>

GridNext ==
    \/ GridDetectorDetect
    \/ DetectByProjection

SpecGrid == GridInit /\ [][GridNext]_vars

C10_LastCellInside ==
    gd.pc = "done"
        => LET lastX == gd.result.originX + (gd.result.cols - 1) * gd.result.spacing
               lastY == gd.result.originY + (gd.result.rows - 1) * gd.result.spacing
           IN  /\ gd.result.spacing < 2 * lastX
               /\ 2 * lastX < 80 * gd.cols - gd.result.spacing
               /\ gd.result.spacing < 2 * lastY
               /\ 2 * lastY < 80 * gd.rows - gd.result.spacing

(***************************************************************************)
(* utils/pixelArt.js: the Block Sampler on one cell of generatePixelArt,   *)
(* in the dominant and the average mode.                                   *)
(***************************************************************************)
SampleInputs ==
    {in \in [iw : 1 .. MaxImg, ih : 1 .. MaxImg, W : 1 .. MaxGrid, H : 1 .. MaxGrid,
             x : 0 .. (MaxGrid - 1), y : 0 .. (MaxGrid - 1),
             mode : {"dominant", "average"}, edge : BOOLEAN, seed : 0 .. MaxSeed] :
        in.x < in.W /\ in.y < in.H}

NoRect == [sx |-> 0, ex |-> 0, sy |-> 0, ey |-> 0]

SampleInit ==
    /\ bs \in {[pc |-> "cell", in |-> i, rect |-> NoRect, pixels |-> <<>>, rgb |-> 0] :
                  i \in SampleInputs}
    /\ qz = Idle /\ nq = Idle /\ rc = Idle /\ pp = Idle /\ gd = Idle
    /\ ca = Idle /\ cc = Idle /\ nm = Idle /\ ag = Idle /\ bk = Idle
    /\ ed = Idle /\ ld = Idle /\ sv = Idle /\ cm = Idle /\ hk = Idle
    /\ bd = Idle

\* one iteration of the cell loop of generatePixelArt up to the sampled rgb
SampleBlock ==
    /\ bs.pc = "cell"
    /\ LET in == bs.in
           data == ImagePattern(in.seed, in.iw, in.ih)
           b == CellBlock(in.x, in.y, in.iw, in.ih, in.W, in.H)
           rect == ScanRect(b.x0, b.y0, b.w, b.h, in.edge)
       IN  bs' = [bs EXCEPT !.pc = "sampled", !.rect = rect,
                            !.pixels = ScanPixels(data, in.iw, rect),
                            !.rgb = SampleCell(data, in.iw, b, in.x, in.y,
                                               in.mode, in.edge)]
    /\ UNCHANGED <<qz, nq, rc, pp, gd, ca, cc, nm, ag, bk, ed, ld, sv, cm, hk,
                 bd>>

SampleNext == SampleBlock

SpecSample == SampleInit /\ [][SampleNext]_vars

\* the number of occurrences of v among the scanned pixels
PixelCount(v) == CountUpTo(bs.pixels, Len(bs.pixels), v)

\* the values with the largest number of occurrences
MostFrequent ==
    {bs.pixels[k] : k \in {j \in 1 .. Len(bs.pixels) :
        \A i \in 1 .. Len(bs.pixels) :
            PixelCount(bs.pixels[j]) >= PixelCount(bs.pixels[i])}}

\* the position at which v occurs for the n-th time
NthOccurrence(v, n) ==
    SetMin({k \in 1 .. Len(bs.pixels) : CountUpTo(bs.pixels, k, v) = n})

\* C11 (as stated): in dominant mode the sampler returns a value with the
\* largest count, and among several such values the one seen first in scan
\* order.
C11_DominantFirstSeen ==
    (bs.pc = "sampled" /\ bs.in.mode = "dominant" /\ Len(bs.pixels) > 0)
        => /\ bs.rgb \in MostFrequent
           /\ \A v \in MostFrequent : NthOccurrence(bs.rgb, 1) <= NthOccurrence(v, 1)

\* C11 (amended): in dominant mode the sampler returns a value with the
\* largest count, and among several such values the one whose count reaches
\* that largest count first in scan order.
C11_DominantFirstToReach ==
    (bs.pc = "sampled" /\ bs.in.mode = "dominant" /\ Len(bs.pixels) > 0)
        => /\ bs.rgb \in MostFrequent
           /\ \A v \in MostFrequent :
                 NthOccurrence(bs.rgb, PixelCount(bs.rgb))
                     <= NthOccurrence(v, PixelCount(v))

C11_Witness ==
    /\ bs.pc = "sampled" /\ bs.in.mode = "dominant"
    /\ Cardinality(MostFrequent) > 1
    /\ bs.rgb # bs.pixels[1]

\* the rectangle of one more edge trim applied to the scanned rectangle
TrimmedAgain ==
    ScanRect(bs.rect.sx, bs.rect.sy, bs.rect.ex - bs.rect.sx,
             bs.rect.ey - bs.rect.sy, TRUE)

\* C12 (as stated): trimming an already trimmed block gives the same
\* rectangle as trimming once.
C12_TrimIdempotent ==
    (bs.pc = "sampled" /\ bs.in.edge) => TrimmedAgain = bs.rect

\* C12 (amended): every edge trim takes at least one pixel from each side,
\* so trimming an already trimmed block gives a rectangle at least two
\* pixels narrower and two pixels lower than trimming once.
C12_TrimShrinks ==
    (bs.pc = "sampled" /\ bs.in.edge)
        => /\ TrimmedAgain.sx > bs.rect.sx /\ TrimmedAgain.ex < bs.rect.ex
           /\ TrimmedAgain.sy > bs.rect.sy /\ TrimmedAgain.ey < bs.rect.ey
           /\ TrimmedAgain.ex - TrimmedAgain.sx <= bs.rect.ex - bs.rect.sx - 2
           /\ TrimmedAgain.ey - TrimmedAgain.sy <= bs.rect.ey - bs.rect.sy - 2

C12_Witness ==
    /\ bs.pc = "sampled" /\ bs.in.edge
    /\ bs.rect.ex > bs.rect.sx /\ bs.rect.ey > bs.rect.sy
    /\ TrimmedAgain.ex < TrimmedAgain.sx

\* C13: for every cell, with edge trimming off or on, the region the
\* dominant and average modes scan contains at least one pixel.
C13_ScanRegionNonEmpty ==
    bs.pc = "sampled" => Len(bs.pixels) >= 1

\* the confidence of the palette colour nearest to the neutral grey, times 15
GreyConfidence ==
    IF Len(rc.pal) = 0 THEN 0
    ELSE LET d == SetMin({LevelDeltaE * DeltaE(GreyLevel, rc.pal[j]) :
                             j \in 1 .. Len(rc.pal)})
         IN  IF d < 2 THEN 15 ELSE Max2(0, 15 - (d - 2))

PhaseRange(k) ==
    CASE k = 1 -> 0 .. 20
      [] k = 2 -> 20 .. 45
      [] k = 3 -> 45 .. 55
      [] OTHER -> 55 .. 95

\* C15: the progress values passed to the progress callback during a run
\* never decrease, each lies in the range of the phase that reports it, and
\* 100 is reported only as the last report of a run that returned a result.
C15_ProgressMonotone ==
    /\ \A k \in 1 .. (Len(rc.progress) - 1) : rc.progress[k] <= rc.progress[k + 1]
    /\ \A k \in 1 .. Len(rc.progress) :
          IF rc.progress[k] = 100
          THEN k = Len(rc.progress) /\ rc.pc = "done" /\ RecSucceeded
          ELSE rc.progress[k] \in PhaseRange(k)

C15_Witness ==
    /\ RecSucceeded
    /\ Len(rc.result.beads) = MaxBeads
    /\ Len(rc.progress) >= 6
    /\ rc.progress[Len(rc.progress)] = 100
    /\ rc.progress[Len(rc.progress) - 1] = 95

C17_GridModelValid ==
    gd.pc = "done"
        => /\ gd.result.spacing > 0
           /\ gd.result.rows >= 1
           /\ gd.result.cols >= 1
           /\ 0 <= gd.result.confidence.num
           /\ gd.result.confidence.num <= gd.result.confidence.den

(***************************************************************************)
(* Cell analyzers: GridAnalyzer.analyzeCell and GridAnalyzerV2.analyzeGrid *)
(* for one cell.  A confidence is the fraction num / den with den > 0.     *)
(***************************************************************************)
contrastThreshold == 8

\* GridAnalyzer.computeConfidence
computeConfidence(contrast, isOccupied) ==
    IF isOccupied
    THEN [num |-> 22 + Min2(22, contrast - contrastThreshold), den |-> 44]
    ELSE [num |-> contrastThreshold + Max2(0, contrastThreshold - contrast),
          den |-> 2 * contrastThreshold]

\* GridAnalyzer.analyzeCell from the measured contrast on
analyzeCell(contrast) ==
    LET isOccupied == contrast > contrastThreshold
    IN [isOccupied |-> isOccupied,
        confidence |-> computeConfidence(contrast, isOccupied)]

\* Math.max(0, Math.min(1, n / d)) as a numerator over |d|, d # 0
Clamp01(n, d) ==
    IF d > 0 THEN Max2(0, Min2(d, n)) ELSE Max2(0, Min2(0 - d, 0 - n))

\* features of one cell: contrast, saturation, edgeCount of ringN ring pixels
RingDen(f) == IF f.ringN > 0 THEN f.ringN ELSE 1

\* common denominator of the fused score for thresholds tc, ts
ScoreDen(f, tc, ts) == 100 * (3 * Abs(tc)) * (3 * ts) * RingDen(f)

\* score = contrastScore * 0.6 + satScore * 0.25 + edgeScore * 0.15
FusedScore(f, tc, ts) ==
    LET contrastScore == Clamp01(2 * f.contrast, 3 * tc)
        satScore      == Clamp01(2 * f.saturation, 3 * ts)
        edgeScore     == IF f.ringN > 0
                         THEN Min2(f.ringN, 8 * f.edgeCount) ELSE 0
    IN  60 * contrastScore * (3 * ts) * RingDen(f)
        + 25 * satScore * (3 * Abs(tc)) * RingDen(f)
        + 15 * edgeScore * (3 * Abs(tc)) * (3 * ts)

\* the confidence 1 - score, for comparison
ClassifyConfidence_Complement(f, tc, ts, isOccupied) ==
    IF isOccupied THEN FusedScore(f, tc, ts)
    ELSE Max2(0, ScoreDen(f, tc, ts) - FusedScore(f, tc, ts))

\* confidence: score
ClassifyConfidence(f, tc, ts, isOccupied) == FusedScore(f, tc, ts)

\* GridAnalyzerV2.classifyWithAdaptiveThreshold for one cell, given the
\* effective contrast threshold tc and the saturation threshold ts
classifyWithAdaptiveThreshold(f, tc, ts) ==
    LET isOccupied ==
            \/ f.contrast > tc
            \/ /\ 10 * f.contrast > 6 * tc
               /\ 10 * f.saturation > 8 * ts
    IN [isOccupied |-> isOccupied,
        confidence |-> [num |-> ClassifyConfidence(f, tc, ts, isOccupied),
                        den |-> ScoreDen(f, tc, ts)]]

\* GridAnalyzerV2.postProcess for one cell that has n4 occupied 4-neighbours
\* and n8 occupied 8-neighbours in the first pass and m4 occupied
\* 4-neighbours in the second pass
PostProcessCell(cell, contrast, n4, n8, m4) ==
    LET removed ==
            /\ cell.isOccupied
            /\ \/ n4 = 0 /\ n8 < 2
               \/ n4 <= 1 /\ 10 * cell.confidence.num < 4 * cell.confidence.den
        first == IF removed
                 THEN [isOccupied |-> FALSE,
                       confidence |-> [num |-> 0, den |-> cell.confidence.den]]
                 ELSE cell
    IN  IF ~first.isOccupied /\ m4 = 4 /\ contrast > 3
        THEN [isOccupied |-> TRUE,
              confidence |-> [num |-> cell.confidence.den \div 2,
                              den |-> cell.confidence.den]]
        ELSE first

\* measured contrasts (ring mean minus centre mean, either sign)
Contrasts == {c \in (0 - MaxContrast)..MaxContrast : c % 4 = 0}

\* effective contrast thresholds (Otsu / mean + 0.5 std of the population)
\* and saturation thresholds the run may have computed
ContrastThresholds == {0 - 6, 6, 10}
SaturationThresholds == {30}

CellFeatures ==
    [contrast : Contrasts, saturation : {0, 20, 40, 60},
     edgeCount : 0..MaxEdgeCount, ringN : {0, 8}]

NoCell == [isOccupied |-> FALSE, confidence |-> [num |-> 0, den |-> 1]]

AnalyzeInit ==
    /\ ca \in [pc : {"features"},
               analyzer : {"GridAnalyzer", "GridAnalyzerV2"},
               features : {f \in CellFeatures : f.ringN = 0 => f.edgeCount = 0},
               tc : ContrastThresholds, ts : SaturationThresholds,
               classified : {NoCell}, cell : {NoCell}]
    /\ ca.analyzer = "GridAnalyzer"
          => /\ ca.features.saturation = 0 /\ ca.features.edgeCount = 0
             /\ ca.features.ringN = 8 /\ ca.tc = 6
    /\ qz = Idle /\ nq = Idle /\ rc = Idle /\ pp = Idle
    /\ gd = Idle /\ bs = Idle /\ cc = Idle /\ nm = Idle /\ ag = Idle
    /\ bk = Idle /\ ed = Idle /\ ld = Idle /\ sv = Idle /\ cm = Idle
    /\ hk = Idle /\ bd = Idle

\* GridAnalyzer.analyzeGrid, one cell
GridAnalyzerAnalyze ==
    /\ ca.pc = "features" /\ ca.analyzer = "GridAnalyzer"
    /\ LET a == analyzeCell(ca.features.contrast)
       IN ca' = [ca EXCEPT !.pc = "done", !.classified = a, !.cell = a]
    /\ UNCHANGED <<qz, nq, rc, pp, gd, bs, cc, nm, ag, bk, ed, ld, sv, cm, hk,
                 bd>>

\* GridAnalyzerV2.analyzeGrid, one cell: classification, then postProcess
GridAnalyzerV2Analyze ==
    /\ ca.pc = "features" /\ ca.analyzer = "GridAnalyzerV2"
    /\ \E n4 \in 0..4, d \in 0..4, m4 \in 0..4 :
          /\ m4 <= n4
          /\ LET a == classifyWithAdaptiveThreshold(ca.features, ca.tc, ca.ts)
             IN ca' = [ca EXCEPT
                         !.pc = "done", !.classified = a,
                         !.cell = PostProcessCell(a, ca.features.contrast,
                                                  n4, n4 + d, m4)]
    /\ UNCHANGED <<qz, nq, rc, pp, gd, bs, cc, nm, ag, bk, ed, ld, sv, cm, hk,
                 bd>>

AnalyzeNext == GridAnalyzerAnalyze \/ GridAnalyzerV2Analyze

SpecAnalyze == AnalyzeInit /\ [][AnalyzeNext]_vars

\* C18: the confidence of every analysed cell lies in [0, 1], for either
\* analyzer and every contrast, negative ones included.
C18_ConfidenceInUnitRange ==
    ca.pc = "done"
        => /\ 0 <= ca.cell.confidence.num
           /\ ca.cell.confidence.num <= ca.cell.confidence.den

\* C19: the classification reports the fused score for an occupied cell and
\* 1 - score, bounded below by 0, for an empty cell.
C19_EmptyComplementScore ==
    (ca.pc = "done" /\ ca.analyzer = "GridAnalyzerV2")
        => ca.classified.confidence.num =
              ClassifyConfidence_Complement(ca.features, ca.tc, ca.ts,
                                            ca.classified.isOccupied)

\* C19 as the code has it: the classification reports the fused score as
\* the confidence of every cell, occupied or empty.
C19_ConfidenceIsScore ==
    (ca.pc = "done" /\ ca.analyzer = "GridAnalyzerV2")
        => /\ ca.classified.confidence.num =
                 FusedScore(ca.features, ca.tc, ca.ts)
           /\ ca.classified.confidence.den =
                 ScoreDen(ca.features, ca.tc, ca.ts)

\* an empty cell whose score is positive and below one half
C19_Witness ==
    /\ ca.pc = "done" /\ ca.analyzer = "GridAnalyzerV2"
    /\ ~ca.classified.isOccupied
    /\ ca.tc > 0
    /\ 0 < ca.classified.confidence.num
    /\ 2 * ca.classified.confidence.num < ca.classified.confidence.den

(***************************************************************************)
(* GridDetectorV2.detect on a candidate cloud of at least minCandidates    *)
(* points.  Candidates are whole pixels; spacing, bounds and origin are in *)
(* units of 1/20 pixel.                                                    *)
(***************************************************************************)
minCandidates == 50

Dist2(p, q) == (p.x - q.x) * (p.x - q.x) + (p.y - q.y) * (p.y - q.y)

\* the element at 0-based index k of the values vals[i], i \in idx, sorted
\* ascending
SortedAt(vals, idx, k) ==
    CHOOSE v \in {vals[i] : i \in idx} :
        /\ Cardinality({i \in idx : vals[i] < v}) <= k
        /\ k < Cardinality({i \in idx : vals[i] <= v})

\* Math.hypot of a whole-pixel offset whose squared length is d2; the
\* candidate sets below keep the median distances whole
Hypot(d2) == CHOOSE r \in 0..d2 : r * r = d2

\* GridDetectorV2.estimateSpacingFromCandidates
estimateSpacingFromCandidates(cands) ==
    IF Len(cands) < 2 THEN 20 * 20
    ELSE
      LET n == Len(cands)
          minDist2 == [i \in 1..n |->
                         SetMin({Dist2(cands[i], cands[j]) :
                                    j \in (1..n) \ {i}})]
          kept == {i \in 1..n : minDist2[i] > 5 * 5}
          len  == Cardinality(kept)
          mid  == len \div 2
          median2 == IF len % 2 = 1
                     THEN 2 * Hypot(SortedAt(minDist2, kept, mid))
                     ELSE Hypot(SortedAt(minDist2, kept, mid - 1))
                          + Hypot(SortedAt(minDist2, kept, mid))
      IN IF len = 0 THEN 20 * 20
         ELSE Max2(10 * 20, Min2(40 * 20, 10 * median2))

\* candidates with at least `least` neighbours at a distance d with d > 0
\* and d < spacing * reach / 10 (the spacing is a whole number of half pixels)
WithNeighbors(cands, spacing, reach, least) ==
    {i \in 1..Len(cands) :
        Cardinality({j \in 1..Len(cands) :
            /\ Dist2(cands[i], cands[j]) > 0
            /\ 400 * Dist2(cands[i], cands[j])
                  < reach * reach * (spacing \div 10) * (spacing \div 10)})
          >= least}

\* the points computeBounds takes its percentiles from
BoundsPoints(cands, spacing) ==
    LET denseCandidates == WithNeighbors(cands, spacing, 18, 3)
        relaxed == IF 10 * Cardinality(denseCandidates) < 3 * Len(cands)
                   THEN WithNeighbors(cands, spacing, 20, 2)
                   ELSE denseCandidates
    IN IF Cardinality(relaxed) < 10 THEN 1..Len(cands) ELSE relaxed

\* GridDetectorV2.computeBounds
computeBounds(cands, spacing) ==
    IF Len(cands) = 0
    THEN [minX |-> 0, maxX |-> 100 * 20, minY |-> 0, maxY |-> 100 * 20]
    ELSE
      LET points == BoundsPoints(cands, spacing)
          xs == [i \in 1..Len(cands) |-> cands[i].x]
          ys == [i \in 1..Len(cands) |-> cands[i].y]
          p5  == (Cardinality(points) * 3) \div 100
          p95 == (Cardinality(points) * 97) \div 100
          margin == (spacing * 3) \div 10
      IN [minX |-> 20 * SortedAt(xs, points, p5) - margin,
          maxX |-> 20 * SortedAt(xs, points, p95) + margin,
          minY |-> 20 * SortedAt(ys, points, p5) - margin,
          maxY |-> 20 * SortedAt(ys, points, p95) + margin]

\* GridDetectorV2.computeOrigin
computeOrigin(cands, spacing, bounds) ==
    LET near == {i \in 1..Len(cands) :
                    /\ 20 * cands[i].x < bounds.minX + spacing * 2
                    /\ 20 * cands[i].y < bounds.minY + spacing * 2}
        score(i) == cands[i].x + cands[i].y
    IN IF near = {} THEN [x |-> bounds.minX, y |-> bounds.minY]
       ELSE LET best == SetMin({i \in near :
                                  \A j \in near : score(i) <= score(j)})
            IN [x |-> 20 * cands[best].x, y |-> 20 * cands[best].y]

\* Math.min(1, candidates.length / (rows * cols * 0.5)) as num / den
CloudConfidence(n, rows, cols) ==
    IF rows * cols = 0 THEN [num |-> 1, den |-> 1]
    ELSE IF rows * cols < 0 THEN [num |-> 0 - 2 * n, den |-> 0 - rows * cols]
    ELSE [num |-> Min2(2 * n, rows * cols), den |-> rows * cols]

\* a regular board of r rows and c columns of candidates
Lattice(r, c, pitch, x0, y0) ==
    [k \in 1..(r * c) |-> [x |-> x0 + ((k - 1) % c) * pitch,
                           y |-> y0 + ((k - 1) \div c) * pitch]]

\* stray candidates, each at least 8 px from every other candidate
OutlierSpots == {<<2, 2>>, <<46, 30>>, <<2, 140>>, <<400, 400>>}

SeqOfSpots(S) ==
    LET RECURSIVE build(_)
        build(T) == IF T = {} THEN <<>>
                    ELSE LET t == CHOOSE u \in T :
                                     \A w \in T : u[1] + u[2] <= w[1] + w[2]
                         IN <<[x |-> t[1], y |-> t[2]]>> \o build(T \ {t})
    IN build(S)

CandidateClouds ==
    {IF first THEN SeqOfSpots(O) \o Lattice(r, c, pitch, 40, 40)
              ELSE Lattice(r, c, pitch, 40, 40) \o SeqOfSpots(O) :
        r \in 7..MaxLattice, c \in 7..MaxLattice, pitch \in {12, 20},
        O \in {T \in SUBSET OutlierSpots : Cardinality(T) <= MaxOutliers},
        first \in BOOLEAN}

NoBounds == [minX |-> 0, maxX |-> 0, minY |-> 0, maxY |-> 0]

NoCloudGrid == [spacing |-> 0, originX |-> 0, originY |-> 0,
                rows |-> 0, cols |-> 0, confidence |-> [num |-> 0, den |-> 1]]

CloudInit ==
    /\ cc \in [pc : {"candidates"},
               candidates : {c \in CandidateClouds : Len(c) >= minCandidates},
               bounds : {NoBounds}, result : {NoCloudGrid}]
    /\ qz = Idle /\ nq = Idle /\ rc = Idle /\ pp = Idle
    /\ gd = Idle /\ bs = Idle /\ ca = Idle /\ nm = Idle /\ ag = Idle
    /\ bk = Idle /\ ed = Idle /\ ld = Idle /\ sv = Idle /\ cm = Idle
    /\ hk = Idle /\ bd = Idle

\* GridDetectorV2.detect, candidate-cloud branch
GridDetectorV2Detect ==
    /\ cc.pc = "candidates"
    /\ Len(cc.candidates) >= minCandidates
    /\ LET spacing == estimateSpacingFromCandidates(cc.candidates)
           bounds  == computeBounds(cc.candidates, spacing)
           origin  == computeOrigin(cc.candidates, spacing, bounds)
           rows    == JsRound(bounds.maxY - origin.y, spacing) + 1
           cols    == JsRound(bounds.maxX - origin.x, spacing) + 1
       IN cc' = [cc EXCEPT
                   !.pc = "done", !.bounds = bounds,
                   !.result = [spacing |-> spacing,
                               originX |-> origin.x, originY |-> origin.y,
                               rows |-> rows, cols |-> cols,
                               confidence |->
                                  CloudConfidence(Len(cc.candidates),
                                                  rows, cols)]]
    /\ UNCHANGED <<qz, nq, rc, pp, gd, bs, ca, nm, ag, bk, ed, ld, sv, cm, hk,
                 bd>>

CloudNext == GridDetectorV2Detect

SpecCloud == CloudInit /\ [][CloudNext]_vars

\* Manhattan distance, in 1/20 pixel, of candidate p to the top-left corner
\* of the bounds
CornerDistance(p, bounds) ==
    Abs(20 * p.x - bounds.minX) + Abs(20 * p.y - bounds.minY)

\* C20: the origin is the candidate surviving the density filter that is
\* closest (Manhattan distance) to the top-left corner of the bounds, so a
\* stray candidate above or left of the board is never the origin.
C20_OriginNearestSurvivor ==
    cc.pc = "done"
        => LET points == BoundsPoints(cc.candidates, cc.result.spacing)
           IN \E i \in points :
                 /\ cc.result.originX = 20 * cc.candidates[i].x
                 /\ cc.result.originY = 20 * cc.candidates[i].y
                 /\ \A j \in points :
                       CornerDistance(cc.candidates[i], cc.bounds)
                          <= CornerDistance(cc.candidates[j], cc.bounds)

(***************************************************************************)
(* Non-maximum suppression: GridDetectorV2.mergeCandidates(candidates, 8)  *)
(* and BeadDetector.filterFalsePositives.  A candidate is a record         *)
(* [x, y, score, radius]; results are sequences of indices into the input. *)
(***************************************************************************)
mergeMinDist == 8
minRadius == 8
maxRadius == 25
minDistance == 20

\* the input order, in place of the order by score
SortedByScore_InputOrder(cands) == [i \in 1..Len(cands) |-> i]

\* [...candidates].sort((a, b) => b.score - a.score): indices by descending
\* score, equal scores in input order (the sort is stable)
SortedByScore(cands) ==
    LET n == Len(cands)
        rank(i) == Cardinality({j \in 1..n : cands[j].score > cands[i].score})
                   + Cardinality({j \in 1..i : cands[j].score = cands[i].score})
    IN [k \in 1..n |-> CHOOSE i \in 1..n : rank(i) = k]

\* the loop "for (const c of order)": c is kept unless skip(c) or it is at a
\* distance below minDist from a candidate already kept
RECURSIVE KeepLoop(_, _, _, _, _, _)
KeepLoop(cands, order, k, kept, minDist, skipRadius) ==
    IF k > Len(order) THEN kept
    ELSE LET c == cands[order[k]]
             skipped == skipRadius
                        /\ (c.radius < minRadius \/ c.radius > maxRadius)
             tooClose == \E m \in 1..Len(kept) :
                            Dist2(c, cands[kept[m]]) < minDist * minDist
         IN KeepLoop(cands, order, k + 1,
                     IF skipped \/ tooClose THEN kept
                     ELSE Append(kept, order[k]),
                     minDist, skipRadius)

\* GridDetectorV2.mergeCandidates
mergeCandidates(cands, minDist) ==
    IF Len(cands) = 0 THEN <<>>
    ELSE KeepLoop(cands, SortedByScore(cands), 1, <<>>, minDist, FALSE)

\* BeadDetector.filterFalsePositives
filterFalsePositives(cands) ==
    KeepLoop(cands, [i \in 1..Len(cands) |-> i], 1, <<>>, minDistance, TRUE)

\* candidate positions, some closer than 8 px, some between 8 and 20 px
\* apart, some further
NmsCoords == {0, 5, 21}

MergeInputs ==
    UNION {[1..n -> [x : NmsCoords, y : {0, 6}, score : 1..MaxScore,
                     radius : {minRadius}]] : n \in 0..MaxCands}

FilterInputs ==
    UNION {[1..n -> [x : NmsCoords, y : {0, 6}, score : {MaxScore},
                     radius : {minRadius - 1, minRadius, maxRadius + 1}]] :
              n \in 0..MaxCands}

NmsInit ==
    /\ \/ nm \in [pc : {"input"}, method : {"mergeCandidates"},
                  input : MergeInputs, kept : {<<>>}]
       \/ nm \in [pc : {"input"}, method : {"filterFalsePositives"},
                  input : FilterInputs, kept : {<<>>}]
    /\ qz = Idle /\ nq = Idle /\ rc = Idle /\ pp = Idle
    /\ gd = Idle /\ bs = Idle /\ ca = Idle /\ cc = Idle /\ ag = Idle
    /\ bk = Idle /\ ed = Idle /\ ld = Idle /\ sv = Idle /\ cm = Idle
    /\ hk = Idle /\ bd = Idle

\* this.mergeCandidates(candidates, 8)
MergeCandidates ==
    /\ nm.pc = "input" /\ nm.method = "mergeCandidates"
    /\ nm' = [nm EXCEPT !.pc = "done",
                        !.kept = mergeCandidates(nm.input, mergeMinDist)]
    /\ UNCHANGED <<qz, nq, rc, pp, gd, bs, ca, cc, ag, bk, ed, ld, sv, cm, hk,
                 bd>>

\* this.filterFalsePositives(refined, gray)
FilterFalsePositives ==
    /\ nm.pc = "input" /\ nm.method = "filterFalsePositives"
    /\ nm' = [nm EXCEPT !.pc = "done",
                        !.kept = filterFalsePositives(nm.input)]
    /\ UNCHANGED <<qz, nq, rc, pp, gd, bs, ca, cc, ag, bk, ed, ld, sv, cm, hk,
                 bd>>

NmsNext == MergeCandidates \/ FilterFalsePositives

SpecNms == NmsInit /\ [][NmsNext]_vars

NmsRadius ==
    IF nm.method = "mergeCandidates" THEN mergeMinDist ELSE minDistance

KeptSet == {nm.kept[m] : m \in 1..Len(nm.kept)}

\* C21: after the suppression every two kept points are at least the radius
\* apart, and every candidate mergeCandidates dropped is closer than the
\* radius to a kept candidate whose score is at least its own.
C21_Suppression ==
    nm.pc = "done"
        => /\ \A a \in 1..Len(nm.kept), b \in 1..Len(nm.kept) :
                 a # b => Dist2(nm.input[nm.kept[a]], nm.input[nm.kept[b]])
                             >= NmsRadius * NmsRadius
           /\ nm.method = "mergeCandidates"
                 => \A i \in (1..Len(nm.input)) \ KeptSet :
                       \E k \in KeptSet :
                          /\ Dist2(nm.input[i], nm.input[k])
                                < NmsRadius * NmsRadius
                          /\ nm.input[k].score >= nm.input[i].score

\* mergeCandidates dropped a candidate that came first in the input, in
\* favour of a later one with a higher score, and kept two candidates
C21_Witness ==
    /\ nm.pc = "done" /\ nm.method = "mergeCandidates"
    /\ Len(nm.kept) = 2
    /\ 1 \notin KeptSet
    /\ \E k \in KeptSet : nm.input[k].score > nm.input[1].score

(***************************************************************************)
(* GridAnalyzer.analyzeGrid and GridAnalyzerV2.analyzeGrid: which cells    *)
(* are returned and in what order.  Cells are records with row and col;    *)
(* postProcess finds neighbours through its Map keyed by "row,col".        *)
(***************************************************************************)
\* the (row, col) pairs in the order "for col ... for row ..."
LoopCells_ColumnMajor(rows, cols) ==
    [k \in 1..(Max2(rows, 0) * Max2(cols, 0)) |->
        [row |-> (k - 1) % rows, col |-> (k - 1) \div rows]]

\* the (row, col) pairs in the order of
\* for (row = 0; row < grid.rows; row++) for (col = 0; col < grid.cols; col++)
LoopCells(rows, cols) ==
    [k \in 1..(Max2(rows, 0) * Max2(cols, 0)) |->
        [row |-> (k - 1) \div cols, col |-> (k - 1) % cols]]

\* the boundary check: the cell is skipped ("continue"); radius is half the
\* spacing, center = origin + index * spacing
OutsideImage(grid, imageCols, imageRows, row, col) ==
    LET centerX2 == 2 * (grid.originX + col * grid.spacing)
        centerY2 == 2 * (grid.originY + row * grid.spacing)
    IN \/ centerX2 - grid.spacing < 0
       \/ centerX2 + grid.spacing >= 2 * imageCols
       \/ centerY2 - grid.spacing < 0
       \/ centerY2 + grid.spacing >= 2 * imageRows

\* the cells pushed by the double loop, before classification
RECURSIVE AnalyzedCells(_, _, _, _, _)
AnalyzedCells(order, k, grid, imageCols, imageRows) ==
    IF k > Len(order) THEN <<>>
    ELSE IF OutsideImage(grid, imageCols, imageRows,
                         order[k].row, order[k].col)
    THEN AnalyzedCells(order, k + 1, grid, imageCols, imageRows)
    ELSE <<order[k]>> \o AnalyzedCells(order, k + 1, grid, imageCols, imageRows)

\* grid.get(`${row},${col}`)?.isOccupied
KeyedOccupied(cells, row, col) ==
    \E k \in 1..Len(cells) :
        cells[k].row = row /\ cells[k].col = col /\ cells[k].isOccupied

KeyedNeighborCount(cells, row, col) ==
    Cardinality({d \in {<<0 - 1, 0>>, <<1, 0>>, <<0, 0 - 1>>, <<0, 1>>} :
                    KeyedOccupied(cells, row + d[1], col + d[2])})

Keyed8NeighborCount(cells, row, col) ==
    Cardinality({d \in ((0 - 1)..1) \X ((0 - 1)..1) :
                    /\ d # <<0, 0>>
                    /\ KeyedOccupied(cells, row + d[1], col + d[2])})

\* first loop of postProcess on the returned list
RECURSIVE KeyedRemovePass(_, _)
KeyedRemovePass(cells, k) ==
    IF k > Len(cells) THEN cells
    ELSE LET cell == cells[k]
             neighbors4 == KeyedNeighborCount(cells, cell.row, cell.col)
             neighbors8 == Keyed8NeighborCount(cells, cell.row, cell.col)
         IN  IF cell.isOccupied
                /\ \/ neighbors4 = 0 /\ neighbors8 < 2
                   \/ neighbors4 <= 1 /\ cell.confidence < 40
             THEN KeyedRemovePass([cells EXCEPT ![k].isOccupied = FALSE,
                                                ![k].confidence = 0], k + 1)
             ELSE KeyedRemovePass(cells, k + 1)

\* second loop of postProcess on the returned list
RECURSIVE KeyedFillPass(_, _)
KeyedFillPass(cells, k) ==
    IF k > Len(cells) THEN cells
    ELSE LET cell == cells[k]
             neighbors4 == KeyedNeighborCount(cells, cell.row, cell.col)
         IN  IF ~cell.isOccupied /\ neighbors4 = 4 /\ cell.contrast > 3
             THEN KeyedFillPass([cells EXCEPT ![k].isOccupied = TRUE,
                                              ![k].confidence = 50], k + 1)
             ELSE KeyedFillPass(cells, k + 1)

\* what classification can say about a cell
CellKinds == {OccupiedLow, OccupiedHigh, EmptyContrasty}

\* the analyzed cells with the classification kinds[k] of the k-th
ClassifiedCells(cells, kinds) ==
    [k \in 1..Len(cells) |->
        [row |-> cells[k].row, col |-> cells[k].col,
         isOccupied |-> kinds[k].isOccupied,
         confidence |-> kinds[k].confidence,
         contrast |-> kinds[k].contrast]]

AgGrids ==
    [originX : {1, 2}, originY : {2, 3}, spacing : {4},
     rows : (0 - 1)..MaxAgRows, cols : 0..MaxAgCols]

AgInit ==
    /\ ag \in [pc : {"grid"}, analyzer : {"GridAnalyzer", "GridAnalyzerV2"},
               imageCols : {8, 16}, imageRows : {16},
               grid : AgGrids, classified : {<<>>}, cells : {<<>>}]
    /\ qz = Idle /\ nq = Idle /\ rc = Idle /\ pp = Idle
    /\ gd = Idle /\ bs = Idle /\ ca = Idle /\ cc = Idle /\ nm = Idle
    /\ bk = Idle /\ ed = Idle /\ ld = Idle /\ sv = Idle /\ cm = Idle
    /\ hk = Idle /\ bd = Idle

\* GridAnalyzer.analyzeGrid(gray, grid)
GridAnalyzerAnalyzeGrid ==
    /\ ag.pc = "grid" /\ ag.analyzer = "GridAnalyzer"
    /\ LET kept == AnalyzedCells(LoopCells(ag.grid.rows, ag.grid.cols), 1,
                                 ag.grid, ag.imageCols, ag.imageRows)
       IN \E kinds \in [1..Len(kept) -> CellKinds] :
             ag' = [ag EXCEPT !.pc = "done",
                              !.classified = ClassifiedCells(kept, kinds),
                              !.cells = ClassifiedCells(kept, kinds)]
    /\ UNCHANGED <<qz, nq, rc, pp, gd, bs, ca, cc, nm, bk, ed, ld, sv, cm, hk,
                 bd>>

\* GridAnalyzerV2.analyzeGrid(gray, color, grid)
GridAnalyzerV2AnalyzeGrid ==
    /\ ag.pc = "grid" /\ ag.analyzer = "GridAnalyzerV2"
    /\ LET kept == AnalyzedCells(LoopCells(ag.grid.rows, ag.grid.cols), 1,
                                 ag.grid, ag.imageCols, ag.imageRows)
       IN \E kinds \in [1..Len(kept) -> CellKinds] :
             LET result == ClassifiedCells(kept, kinds)
             IN ag' = [ag EXCEPT
                         !.pc = "done", !.classified = result,
                         !.cells = KeyedFillPass(KeyedRemovePass(result, 1), 1)]
    /\ UNCHANGED <<qz, nq, rc, pp, gd, bs, ca, cc, nm, bk, ed, ld, sv, cm, hk,
                 bd>>

AgNext == GridAnalyzerAnalyzeGrid \/ GridAnalyzerV2AnalyzeGrid

SpecCells == AgInit /\ [][AgNext]_vars

\* (row, col) of a comes before that of b in row-major order
RowMajorBefore(a, b) == a.row < b.row \/ (a.row = b.row /\ a.col < b.col)

\* C22: the analyzer returns its cells in strictly increasing row-major
\* order (so each lattice cell at most once), returns no cell whose sampling
\* disk crosses the image border, and post-processing keeps the records and
\* their order.
C22_RowMajorCells ==
    ag.pc = "done"
        => /\ \A k \in 1..(Len(ag.cells) - 1) :
                 RowMajorBefore(ag.cells[k], ag.cells[k + 1])
           /\ \A k \in 1..Len(ag.cells) :
                 /\ ag.cells[k].row \in 0..(ag.grid.rows - 1)
                 /\ ag.cells[k].col \in 0..(ag.grid.cols - 1)
                 /\ ~OutsideImage(ag.grid, ag.imageCols, ag.imageRows,
                                  ag.cells[k].row, ag.cells[k].col)
           /\ Len(ag.cells) = Len(ag.classified)
           /\ \A k \in 1..Len(ag.cells) :
                 /\ ag.cells[k].row = ag.classified[k].row
                 /\ ag.cells[k].col = ag.classified[k].col

\* GridAnalyzerV2 skipped a border cell, returned cells of two rows and
\* post-processing changed one of them
C22_Witness ==
    /\ ag.pc = "done" /\ ag.analyzer = "GridAnalyzerV2"
    /\ Len(ag.cells) < ag.grid.rows * ag.grid.cols
    /\ \E k \in 1..Len(ag.cells) : ag.cells[k].row = 1 /\ ag.cells[k].col = 1
    /\ ag.cells # ag.classified

(***************************************************************************)
(* utils/pixelArt.js: the cell blocks of generatePixelArt and the single   *)
(* pixel the center and diagonal45 modes read in each, on larger images.   *)
(***************************************************************************)
\* the offset inside the block of the pixel the mode reads
SinglePixelOffset(colorMode, blockW, blockH, excludeEdge) ==
    IF colorMode = "center" THEN CenterOffset(blockW, blockH, excludeEdge)
    ELSE Diagonal45Offset(blockW, blockH, excludeEdge)

\* the pixel (xx, yy) read for each cell
SinglePixels(in) ==
    [y \in 0 .. (in.H - 1) |->
        [x \in 0 .. (in.W - 1) |->
            LET b == CellBlock(x, y, in.iw, in.ih, in.W, in.H)
                o == SinglePixelOffset(in.mode, b.w, b.h, in.edge)
            IN [x |-> b.x0 + o.x, y |-> b.y0 + o.y]]]

BlockInputs ==
    [iw : 1 .. MaxTileImg, ih : {1, 2, 3, 7, MaxTileImg},
     W : 1 .. MaxTileGrid, H : 1 .. MaxTileGrid,
     mode : {"center", "diagonal45"}, edge : BOOLEAN]

BlockInit ==
    /\ bk \in [pc : {"input"}, in : BlockInputs, blocks : {<<>>}, read : {<<>>}]
    /\ qz = Idle /\ nq = Idle /\ rc = Idle /\ pp = Idle /\ gd = Idle
    /\ bs = Idle /\ ca = Idle /\ cc = Idle /\ nm = Idle /\ ag = Idle
    /\ ed = Idle /\ ld = Idle /\ sv = Idle /\ cm = Idle /\ hk = Idle
    /\ bd = Idle

\* the cell loop of generatePixelArt in the center and diagonal45 modes
ComputeBlocks ==
    /\ bk.pc = "input"
    /\ bk' = [bk EXCEPT
                !.pc = "done",
                !.blocks = [y \in 0 .. (bk.in.H - 1) |->
                              [x \in 0 .. (bk.in.W - 1) |->
                                  CellBlock(x, y, bk.in.iw, bk.in.ih,
                                            bk.in.W, bk.in.H)]],
                !.read = SinglePixels(bk.in)]
    /\ UNCHANGED <<qz, nq, rc, pp, gd, bs, ca, cc, nm, ag, ed, ld, sv, cm, hk,
                 bd>>

BlockNext == ComputeBlocks

SpecBlocks == BlockInit /\ [][BlockNext]_vars

\* C23: when the image is at least as large as the target grid, the blocks
\* tile the image: on each axis the first block starts at 0, each block
\* starts where the previous one ends, has a size of at least 1, and the
\* last one ends at the image size.
C23_BlocksTileImage ==
    (bk.pc = "done" /\ bk.in.iw >= bk.in.W /\ bk.in.ih >= bk.in.H)
        => \A y \in 0 .. (bk.in.H - 1), x \in 0 .. (bk.in.W - 1) :
              LET b == bk.blocks[y][x]
              IN /\ b.w >= 1 /\ b.h >= 1
                 /\ x = 0 => b.x0 = 0
                 /\ y = 0 => b.y0 = 0
                 /\ x > 0 => b.x0 = bk.blocks[y][x - 1].x0 + bk.blocks[y][x - 1].w
                 /\ y > 0 => b.y0 = bk.blocks[y - 1][x].y0 + bk.blocks[y - 1][x].h
                 /\ x = bk.in.W - 1 => b.x0 + b.w = bk.in.iw
                 /\ y = bk.in.H - 1 => b.y0 + b.h = bk.in.ih

\* an image that does not divide evenly: blocks of different widths
C23_Witness ==
    /\ bk.pc = "done" /\ bk.in.iw >= bk.in.W /\ bk.in.ih >= bk.in.H
    /\ bk.in.W >= 3
    /\ \E x \in 1 .. (bk.in.W - 1) : bk.blocks[0][x].w # bk.blocks[0][0].w

\* C24: the pixel read by the center and diagonal45 modes lies inside the
\* cell's block, and inside the trimmed sub-block when edge trimming is on
\* and the trimmed sub-block is not empty.
C24_SinglePixelInside ==
    bk.pc = "done"
        => \A y \in 0 .. (bk.in.H - 1), x \in 0 .. (bk.in.W - 1) :
              LET b == bk.blocks[y][x]
                  p == bk.read[y][x]
                  r == ScanRect(b.x0, b.y0, b.w, b.h, bk.in.edge)
              IN /\ b.x0 <= p.x /\ p.x < b.x0 + b.w
                 /\ b.y0 <= p.y /\ p.y < b.y0 + b.h
                 /\ (bk.in.edge /\ r.sx < r.ex /\ r.sy < r.ey)
                       => /\ r.sx <= p.x /\ p.x < r.ex
                          /\ r.sy <= p.y /\ p.y < r.ey

\* diagonal45 with trimming on a grid that has a block with an empty
\* trimmed sub-block (width 2) and a block with a non-empty one
C24_Witness ==
    /\ bk.pc = "done" /\ bk.in.mode = "diagonal45" /\ bk.in.edge
    /\ \E y \in 0 .. (bk.in.H - 1), x \in 0 .. (bk.in.W - 1) :
          bk.blocks[y][x].w = 2
    /\ \E y \in 0 .. (bk.in.H - 1), x \in 0 .. (bk.in.W - 1) :
          bk.blocks[y][x].w = 3 /\ bk.blocks[y][x].h >= 7

(***************************************************************************)
(* components/BeadPatternEditor.tsx: the drawer that edits one cell.  A    *)
(* colour is a record: its name, whether its hex starts with "#", and      *)
(* whether r, g, b are present.  The handlers are enabled in every state,  *)
(* also those the closed drawer hides.                                     *)
(***************************************************************************)
None == [none |-> TRUE]

Red == [name |-> "red", hashed |-> TRUE, rgb |-> TRUE]

BlueRaw == [name |-> "blue", hashed |-> FALSE, rgb |-> FALSE]

\* normalizePixelColor(c): hex gets its "#", missing r, g, b become 0
normalizePixelColor(c) == [c EXCEPT !.hashed = TRUE, !.rgb = TRUE]

\* getAvailableColors(): colours carry "#" + hex and their r, g, b
availableColors == {Red, normalizePixelColor(BlueRaw)}

\* a map that replaces every cell of the row
SavedPixelData_WholeRow(pixelData, row, col, pendingColor) ==
    [rIdx \in DOMAIN pixelData |->
        IF rIdx = row
        THEN [cIdx \in DOMAIN pixelData[rIdx] |-> pendingColor]
        ELSE pixelData[rIdx]]

\* pixelData.map((r, rIdx) => rIdx === row
\*    ? r.map((c, cIdx) => (cIdx === col ? pendingColor : c)) : r)
SavedPixelData(pixelData, row, col, pendingColor) ==
    [rIdx \in DOMAIN pixelData |->
        IF rIdx = row
        THEN [cIdx \in DOMAIN pixelData[rIdx] |->
                 IF cIdx = col THEN pendingColor ELSE pixelData[rIdx][cIdx]]
        ELSE pixelData[rIdx]]

EdCols == 1..2

EditorInit ==
    /\ \E rows \in 1..MaxEdRows :
          \E grid \in [1..rows -> [EdCols -> {Red, BlueRaw}]] :
             ed = [pc |-> "editing", pixelData |-> grid,
                   selectedCell |-> None, pendingColor |-> None,
                   drawerVisible |-> FALSE,
                   event |-> "mount", before |-> grid, clicked |-> None]
    /\ qz = Idle /\ nq = Idle /\ rc = Idle /\ pp = Idle /\ gd = Idle
    /\ bs = Idle /\ ca = Idle /\ cc = Idle /\ nm = Idle /\ ag = Idle
    /\ bk = Idle /\ ld = Idle /\ sv = Idle /\ cm = Idle /\ hk = Idle
    /\ bd = Idle

\* handleCellClick(row, col)
HandleCellClick ==
    /\ ed.pc = "editing"
    /\ \E row \in DOMAIN ed.pixelData, col \in EdCols :
          LET color == ed.pixelData[row][col]
          IN ed' = [ed EXCEPT
                      !.selectedCell = [row |-> row, col |-> col,
                                        color |-> color],
                      !.pendingColor = normalizePixelColor(color),
                      !.drawerVisible = TRUE,
                      !.event = "click", !.before = ed.pixelData,
                      !.clicked = [row |-> row, col |-> col]]
    /\ UNCHANGED <<qz, nq, rc, pp, gd, bs, ca, cc, nm, ag, bk, ld, sv, cm, hk,
                 bd>>

\* handleSelectPendingColor(newColor)
HandleSelectPendingColor ==
    /\ ed.pc = "editing"
    /\ \E newColor \in availableColors :
          ed' = [ed EXCEPT !.pendingColor = normalizePixelColor(newColor),
                           !.event = "select", !.before = ed.pixelData]
    /\ UNCHANGED <<qz, nq, rc, pp, gd, bs, ca, cc, nm, ag, bk, ld, sv, cm, hk,
                 bd>>

\* handleDrawerSave(): onUpdatePixelData(newPixelData) replaces the prop
HandleDrawerSave ==
    /\ ed.pc = "editing"
    /\ IF ed.selectedCell = None \/ ed.pendingColor = None
       THEN ed' = [ed EXCEPT !.event = "save", !.before = ed.pixelData]
       ELSE ed' = [ed EXCEPT
                     !.pixelData = SavedPixelData(ed.pixelData,
                                                  ed.selectedCell.row,
                                                  ed.selectedCell.col,
                                                  ed.pendingColor),
                     !.selectedCell = [ed.selectedCell EXCEPT
                                          !.color = ed.pendingColor],
                     !.drawerVisible = FALSE,
                     !.event = "save", !.before = ed.pixelData]
    /\ UNCHANGED <<qz, nq, rc, pp, gd, bs, ca, cc, nm, ag, bk, ld, sv, cm, hk,
                 bd>>

\* handleDrawerCancel()
HandleDrawerCancel ==
    /\ ed.pc = "editing"
    /\ ed' = [ed EXCEPT !.drawerVisible = FALSE,
                        !.event = "cancel", !.before = ed.pixelData]
    /\ UNCHANGED <<qz, nq, rc, pp, gd, bs, ca, cc, nm, ag, bk, ld, sv, cm, hk,
                 bd>>

EditorNext ==
    \/ HandleCellClick
    \/ HandleSelectPendingColor
    \/ HandleDrawerSave
    \/ HandleDrawerCancel

SpecEditor == EditorInit /\ [][EditorNext]_vars

\* C25: the pixel grid changes only at a save; a save changes only the cell
\* clicked last, to the pending colour, and keeps every other cell and the
\* shape of the grid; a colour selection or a cancel leaves the grid as it
\* was.
C25_OnlySaveEdits ==
    ed.pc = "editing"
        => /\ DOMAIN ed.pixelData = DOMAIN ed.before
           /\ \A r \in DOMAIN ed.pixelData :
                 DOMAIN ed.pixelData[r] = DOMAIN ed.before[r]
           /\ ed.event # "save" => ed.pixelData = ed.before
           /\ ed.event = "save"
                 => \A r \in DOMAIN ed.pixelData, c \in EdCols :
                       IF ed.clicked # None
                          /\ r = ed.clicked.row /\ c = ed.clicked.col
                       THEN ed.pixelData[r][c] = ed.pendingColor
                       ELSE ed.pixelData[r][c] = ed.before[r][c]

\* a save that turned a red cell blue while another cell, saved earlier,
\* keeps its colour
C25_Witness ==
    /\ ed.pc = "editing" /\ ed.event = "save"
    /\ ed.clicked # None
    /\ ed.pixelData # ed.before
    /\ ed.before[ed.clicked.row][ed.clicked.col] = Red
    /\ ed.pixelData[ed.clicked.row][ed.clicked.col].name = "blue"
    /\ \E r \in DOMAIN ed.pixelData, c \in EdCols :
          /\ <<r, c>> # <<ed.clicked.row, ed.clicked.col>>
          /\ ed.pixelData[r][c] = normalizePixelColor(BlueRaw)

(***************************************************************************)
(* bead-recognition/opencvLoader.ts.  The module variable loadPromise, the *)
(* global cv, the script of the attempt in flight, and the calls made so   *)
(* far with the promise each got.                                          *)
(***************************************************************************)
MAX_RETRIES == 2

\* a retry also after the last allowed attempt
ShouldRetry_Inclusive(attempt, maxRetries) == attempt <= maxRetries

\* if (attempt < maxRetries) return tryLoad(attempt + 1, maxRetries)
ShouldRetry(attempt, maxRetries) == attempt < maxRetries

\* attempt === 0 && base ? `${base}${OPENCV_LOCAL}` : OPENCV_CDN
ScriptUrl(attempt, base) == IF attempt = 0 /\ base THEN "local" ELSE "cdn"

\* typeof cv !== "undefined" && cv.ready !== false
CvUsable(cv) == cv.defined /\ cv.ready # "false"

LoaderInit ==
    /\ ld = [pc |-> "idle", cv |-> [defined |-> FALSE, ready |-> "undefined"],
             loadPromise |-> "null", chain |-> "none", chains |-> 0,
             attempt |-> 0, maxRetries |-> 0, script |-> "none",
             attempts |-> <<>>, calls |-> <<>>]
    /\ qz = Idle /\ nq = Idle /\ rc = Idle /\ pp = Idle /\ gd = Idle
    /\ bs = Idle /\ ca = Idle /\ cc = Idle /\ nm = Idle /\ ag = Idle
    /\ bk = Idle /\ ed = Idle /\ sv = Idle /\ cm = Idle /\ hk = Idle
    /\ bd = Idle

\* what a call is remembered by: the promise it got, whether cv was usable,
\* the state of the chain and the number of attempts when it was made
CallRecord(promise) ==
    [promise |-> promise, usable |-> CvUsable(ld.cv), chain |-> ld.chain,
     attempts |-> Len(ld.attempts)]

\* loadOpenCV(retries); without an argument retries = MAX_RETRIES
LoadOpenCV ==
    /\ Len(ld.calls) < MaxLoadCalls
    /\ \E retries \in {0, MAX_RETRIES, MaxRetriesArg} :
          IF CvUsable(ld.cv)
          THEN ld' = [ld EXCEPT !.calls = Append(@, CallRecord("resolved"))]
          ELSE IF ld.loadPromise # "null"
          THEN ld' = [ld EXCEPT !.calls = Append(@, CallRecord(ld.loadPromise))]
          ELSE ld' = [ld EXCEPT
                        !.pc = "loading", !.loadPromise = "chain",
                        !.chain = "pending", !.chains = @ + 1,
                        !.attempt = 0, !.maxRetries = retries,
                        !.script = ScriptUrl(0, TRUE),
                        !.attempts = Append(@, ScriptUrl(0, TRUE)),
                        !.calls = Append(@, CallRecord("chain"))]
    /\ UNCHANGED <<qz, nq, rc, pp, gd, bs, ca, cc, nm, ag, bk, ed, sv, cm, hk,
                 bd>>

\* the rejection of loadScript reaches the catch of tryLoad
Rejected(s) ==
    IF ShouldRetry(s.attempt, s.maxRetries)
    THEN [s EXCEPT !.attempt = @ + 1,
                   !.script = ScriptUrl(s.attempt + 1, TRUE),
                   !.attempts = Append(@, ScriptUrl(s.attempt + 1, TRUE))]
    ELSE [s EXCEPT !.pc = "idle", !.script = "none", !.chain = "rejected"]

\* script.onerror
ScriptError ==
    /\ ld.pc = "loading"
    /\ ld' = Rejected(ld)
    /\ UNCHANGED <<qz, nq, rc, pp, gd, bs, ca, cc, nm, ag, bk, ed, sv, cm, hk,
                 bd>>

\* script.onload: window.cv is missing, ready, or still initialising
ScriptLoad ==
    /\ ld.pc = "loading"
    /\ \/ ld' = Rejected(ld)
       \/ ld' = [ld EXCEPT !.pc = "idle", !.script = "none",
                           !.cv = [defined |-> TRUE, ready |-> "true"],
                           !.chain = "resolved"]
       \/ \E r \in {"undefined", "false"} :
             ld' = [ld EXCEPT !.pc = "initialising", !.script = "none",
                              !.cv = [defined |-> TRUE, ready |-> r]]
    /\ UNCHANGED <<qz, nq, rc, pp, gd, bs, ca, cc, nm, ag, bk, ed, sv, cm, hk,
                 bd>>

\* cv.onRuntimeInitialized, or the 8000 ms timer
RuntimeInitialized ==
    /\ ld.pc = "initialising"
    /\ ld' = [ld EXCEPT !.pc = "idle",
                        !.cv = [defined |-> TRUE, ready |-> "true"],
                        !.chain = "resolved"]
    /\ UNCHANGED <<qz, nq, rc, pp, gd, bs, ca, cc, nm, ag, bk, ed, sv, cm, hk,
                 bd>>

LoaderNext == LoadOpenCV \/ ScriptError \/ ScriptLoad \/ RuntimeInitialized

SpecLoader == LoaderInit /\ [][LoaderNext]_vars

MaxSavedOps == 3

isNewFormat(record) == record.newFormat

RECURSIVE RawById(_)
\* getAll() returns the records in ascending key order
RawById(store) ==
    IF store = {} THEN <<>>
    ELSE LET r == CHOOSE x \in store : \A y \in store : x.id <= y.id
         IN <<r>> \o RawById(store \ {r})

RECURSIVE InsertByUpdatedAtDesc(_, _)
InsertByUpdatedAtDesc(sorted, r) ==
    IF sorted = <<>> THEN <<r>>
    ELSE IF Head(sorted).updatedAt >= r.updatedAt
         THEN <<Head(sorted)>> \o InsertByUpdatedAtDesc(Tail(sorted), r)
         ELSE <<r>> \o sorted

RECURSIVE SortByUpdatedAtDesc(_)
\* stable sort with comparator (a, b) => b.updatedAt - a.updatedAt
SortByUpdatedAtDesc(list) ==
    IF list = <<>> THEN <<>>
    ELSE InsertByUpdatedAtDesc(SortByUpdatedAtDesc(SubSeq(list, 1, Len(list) - 1)),
                               list[Len(list)])

getAllPatterns(store) ==
    SortByUpdatedAtDesc(SelectSeq(RawById(store), isNewFormat))

RemoveUpdate_KeepAll(prev, id) == prev

\* setPatterns((prev) => prev.filter((p) => p.id !== id))
RemoveUpdate(prev, id) == SelectSeq(prev, LAMBDA p : p.id # id)

\* setPatterns((prev) => [record, ...prev.filter((p) => p.id !== record.id)])
SaveUpdate(prev, record) ==
    <<record>> \o SelectSeq(prev, LAMBDA p : p.id # record.id)

LegacyRecord == [id |-> 1, newFormat |-> FALSE, updatedAt |-> 0]
StoredRecord == [id |-> 2, newFormat |-> TRUE, updatedAt |-> 0]

SavedOp(kind, id) == [kind |-> kind, id |-> id, state |-> "pending", doneAt |-> 0]

\* The hook has mounted: patterns is empty, loading is true and the
\* effect has started the first refresh.  The store holds what earlier
\* sessions left in it.
SavedInit ==
    /\ \E store \in SUBSET {LegacyRecord, StoredRecord} :
          sv = [pc |-> "mounted", store |-> store, patterns |-> <<>>,
                loading |-> TRUE, error |-> FALSE,
                ops |-> <<SavedOp("refresh", 0)>>,
                nextId |-> 3, now |-> 1, done |-> 0, refreshed |-> FALSE]
    /\ qz = Idle /\ nq = Idle /\ rc = Idle /\ pp = Idle /\ gd = Idle
    /\ bs = Idle /\ ca = Idle /\ cc = Idle /\ nm = Idle /\ ag = Idle
    /\ bk = Idle /\ ed = Idle /\ ld = Idle /\ cm = Idle /\ hk = Idle
    /\ bd = Idle

OthersUnchangedSv == UNCHANGED <<qz, nq, rc, pp, gd, bs, ca, cc, nm, ag, bk, ed, ld, cm, hk,
                 bd>>

\* refresh(): setLoading(true); setError(null); await getAllPatterns()
Refresh ==
    /\ sv.pc = "mounted"
    /\ Len(sv.ops) < MaxSavedOps
    /\ sv' = [sv EXCEPT !.loading = TRUE, !.error = FALSE,
                        !.ops = Append(@, SavedOp("refresh", 0))]
    /\ OthersUnchangedSv

\* savePattern(input): await addPattern(input)
SavePattern ==
    /\ sv.pc = "mounted"
    /\ Len(sv.ops) < MaxSavedOps
    /\ sv' = [sv EXCEPT !.ops = Append(@, SavedOp("save", 0))]
    /\ OthersUnchangedSv

\* removePattern(id): await storage.removePattern(id)
RemovePattern ==
    /\ sv.pc = "mounted"
    /\ Len(sv.ops) < MaxSavedOps
    /\ \E id \in {r.id : r \in sv.store} \cup {sv.patterns[k].id : k \in 1..Len(sv.patterns)} :
          sv' = [sv EXCEPT !.ops = Append(@, SavedOp("remove", id))]
    /\ OthersUnchangedSv

Settle(ops, i, state, id, stamp) ==
    [ops EXCEPT ![i] = [@ EXCEPT !.state = state, !.id = id, !.doneAt = stamp]]

\* getAll's onsuccess, then refresh's setPatterns(list) and finally
GetAllSuccess ==
    /\ sv.pc = "mounted"
    /\ \E i \in 1..Len(sv.ops) :
          /\ sv.ops[i].kind = "refresh" /\ sv.ops[i].state = "pending"
          /\ sv' = [sv EXCEPT !.patterns = getAllPatterns(sv.store),
                              !.loading = FALSE,
                              !.refreshed = TRUE,
                              !.done = @ + 1,
                              !.ops = Settle(@, i, "resolved", 0, sv.done + 1)]
    /\ OthersUnchangedSv

\* add's onsuccess, then savePattern's functional setPatterns
AddSuccess ==
    /\ sv.pc = "mounted"
    /\ \E i \in 1..Len(sv.ops) :
          /\ sv.ops[i].kind = "save" /\ sv.ops[i].state = "pending"
          /\ LET record == [id |-> sv.nextId, newFormat |-> TRUE, updatedAt |-> sv.now]
             IN sv' = [sv EXCEPT !.store = @ \cup {record},
                                 !.patterns = SaveUpdate(@, record),
                                 !.nextId = @ + 1,
                                 !.now = @ + 1,
                                 !.done = @ + 1,
                                 !.ops = Settle(@, i, "resolved", record.id, sv.done + 1)]
    /\ OthersUnchangedSv

\* delete's onsuccess, then removePattern's functional setPatterns
DeleteSuccess ==
    /\ sv.pc = "mounted"
    /\ \E i \in 1..Len(sv.ops) :
          /\ sv.ops[i].kind = "remove" /\ sv.ops[i].state = "pending"
          /\ sv' = [sv EXCEPT !.store = {r \in @ : r.id # sv.ops[i].id},
                              !.patterns = RemoveUpdate(@, sv.ops[i].id),
                              !.done = @ + 1,
                              !.ops = Settle(@, i, "resolved", sv.ops[i].id, sv.done + 1)]
    /\ OthersUnchangedSv

\* open's or the request's onerror: the promise rejects, the store is
\* untouched; refresh records the error and clears loading, savePattern
\* and removePattern throw to their caller
RequestError ==
    /\ sv.pc = "mounted"
    /\ \E i \in 1..Len(sv.ops) :
          /\ sv.ops[i].state = "pending"
          /\ sv' = [sv EXCEPT !.error = IF sv.ops[i].kind = "refresh" THEN TRUE ELSE @,
                              !.loading = IF sv.ops[i].kind = "refresh" THEN FALSE ELSE @,
                              !.done = @ + 1,
                              !.ops = Settle(@, i, "rejected", sv.ops[i].id, sv.done + 1)]
    /\ OthersUnchangedSv

SavedNext ==
    \/ Refresh
    \/ SavePattern
    \/ RemovePattern
    \/ GetAllSuccess
    \/ AddSuccess
    \/ DeleteSuccess
    \/ RequestError

SpecSaved == SavedInit /\ [][SavedNext]_vars

AllSettled ==
    sv.pc = "mounted" /\ \A i \in 1..Len(sv.ops) : sv.ops[i].state # "pending"

ListIds == {sv.patterns[k].id : k \in 1..Len(sv.patterns)}

EachIdOnce ==
    \A j, k \in 1..Len(sv.patterns) : sv.patterns[j].id = sv.patterns[k].id => j = k

SavedAndRemovedAgree ==
    /\ \A i \in 1..Len(sv.ops) :
          (sv.ops[i].kind = "remove" /\ sv.ops[i].state = "resolved")
             => sv.ops[i].id \notin ListIds
    /\ \A i \in 1..Len(sv.ops) :
          (/\ sv.ops[i].kind = "save" /\ sv.ops[i].state = "resolved"
           /\ \A j \in 1..Len(sv.ops) :
                 ~(sv.ops[j].kind = "remove" /\ sv.ops[j].state = "resolved"
                   /\ sv.ops[j].id = sv.ops[i].id))
             => sv.ops[i].id \in ListIds

\* C27 (as the code has it): once every started operation has settled and
\* at least one refresh has resolved, the patterns list holds exactly the
\* new-format records of the store, each id once; a pattern whose save
\* has resolved is in the list and one whose removal has resolved is not,
\* whatever refresh was in flight meanwhile.  Old-format records stay in
\* the store and never enter the list.
C27_ListMatchesNewFormatStore ==
    (AllSettled /\ sv.refreshed)
       => /\ {sv.patterns[k] : k \in 1..Len(sv.patterns)}
                = {r \in sv.store : isNewFormat(r)}
          /\ EachIdOnce
          /\ SavedAndRemovedAgree

\* a refresh started before a save and a removal and resolved after both,
\* with an old-format record in the store
C27_Witness ==
    /\ AllSettled
    /\ LegacyRecord \in sv.store
    /\ \E r, s, d \in 1..Len(sv.ops) :
          /\ sv.ops[r].kind = "refresh" /\ sv.ops[r].state = "resolved"
          /\ sv.ops[s].kind = "save" /\ sv.ops[s].state = "resolved"
          /\ sv.ops[d].kind = "remove" /\ sv.ops[d].state = "resolved"
          /\ r < s /\ r < d
          /\ sv.ops[r].doneAt > sv.ops[s].doneAt
          /\ sv.ops[r].doneAt > sv.ops[d].doneAt
          /\ sv.ops[d].id = StoredRecord.id

\* C27 as stated: once every started operation has completed the list
\* holds exactly the records that are in the store, each id once
C27_ListMatchesStore ==
    AllSettled
       => /\ {sv.patterns[k] : k \in 1..Len(sv.patterns)} = sv.store
          /\ EachIdOnce


\* ---------------------------------------------------------------------
\* CoordinateMapper.mapToGrid (src/bead-recognition/coordinateMapper.ts).
\* Bead coordinates are finite numbers and the spacing is positive; they
\* are integers here, so (x - ox) / spacing is the exact fraction that
\* JsRound rounds.  A Map is the sequence of its entries in insertion
\* order; the key `${col},${row}` of two integers is the pair <<col, row>>,
\* which key.split(",").map(Number) reads back unchanged.
MaxMapBeads == 3

MapBeadXs == {3, 5, 13}
MapBeadYs == {3, 8}
MapBeadRadii == {8, 9}
MapSpacings == {4, 5}

MapBeads == [x : MapBeadXs, y : MapBeadYs, radius : MapBeadRadii]

RECURSIVE MathMin(_)
\* Math.min(...values) of a non-empty list
MathMin(values) ==
    IF Len(values) = 1 THEN values[1]
    ELSE LET rest == MathMin(Tail(values))
         IN IF values[1] < rest THEN values[1] ELSE rest

MapHas(map, key) == \E k \in 1..Len(map) : map[k].key = key

MapPut_Overwrite(map, key, bead) ==
    IF MapHas(map, key)
    THEN [k \in 1..Len(map) |->
            IF map[k].key = key THEN [key |-> key, bead |-> bead] ELSE map[k]]
    ELSE Append(map, [key |-> key, bead |-> bead])

\* if (!map.has(key)) map.set(key, {...bead, x, y})
MapPut(map, key, bead) ==
    IF MapHas(map, key) THEN map ELSE Append(map, [key |-> key, bead |-> bead])

RECURSIVE AlignLoop(_, _, _, _, _, _)
AlignLoop(coords, spacing, ox, oy, i, map) ==
    IF i > Len(coords) THEN map
    ELSE LET c == coords[i]
             col == JsRound(c.x - ox, spacing)
             row == JsRound(c.y - oy, spacing)
         IN AlignLoop(coords, spacing, ox, oy, i + 1,
                      MapPut(map, <<col, row>>, [c.bead EXCEPT !.x = c.x, !.y = c.y]))

alignToGrid(coords, spacing, ox, oy) == AlignLoop(coords, spacing, ox, oy, 1, <<>>)

GridCoordinateBefore(a, b) == IF a.row # b.row THEN a.row < b.row ELSE a.col < b.col

RECURSIVE InsertGridCoordinate(_, _)
InsertGridCoordinate(sorted, g) ==
    IF sorted = <<>> THEN <<g>>
    ELSE IF GridCoordinateBefore(g, Head(sorted))
         THEN <<g>> \o sorted
         ELSE <<Head(sorted)>> \o InsertGridCoordinate(Tail(sorted), g)

RECURSIVE SortGridCoordinates(_)
\* stable sort with comparator a.row !== b.row ? a.row - b.row : a.col - b.col
SortGridCoordinates(list) ==
    IF list = <<>> THEN <<>>
    ELSE InsertGridCoordinate(SortGridCoordinates(SubSeq(list, 1, Len(list) - 1)),
                              list[Len(list)])

mapToGrid(beads, gridSpacing) ==
    IF Len(beads) = 0 THEN <<>>
    ELSE LET minX == MathMin([k \in 1..Len(beads) |-> beads[k].x])
             minY == MathMin([k \in 1..Len(beads) |-> beads[k].y])
             aligned == alignToGrid([k \in 1..Len(beads) |->
                                       [x |-> beads[k].x, y |-> beads[k].y, bead |-> beads[k]]],
                                    gridSpacing, minX, minY)
             result == [k \in 1..Len(aligned) |->
                          [row |-> aligned[k].key[2], col |-> aligned[k].key[1],
                           pixelX |-> aligned[k].bead.x, pixelY |-> aligned[k].bead.y,
                           bead |-> aligned[k].bead]]
         IN SortGridCoordinates(result)

MapperInit ==
    /\ \E n \in 0..MaxMapBeads : \E beads \in [1..n -> MapBeads] :
       \E gridSpacing \in MapSpacings :
          cm = [pc |-> "input", beads |-> beads, gridSpacing |-> gridSpacing,
                result |-> <<>>]
    /\ qz = Idle /\ nq = Idle /\ rc = Idle /\ pp = Idle /\ gd = Idle
    /\ bs = Idle /\ ca = Idle /\ cc = Idle /\ nm = Idle /\ ag = Idle
    /\ bk = Idle /\ ed = Idle /\ ld = Idle /\ sv = Idle /\ hk = Idle
    /\ bd = Idle

MapToGrid ==
    /\ cm.pc = "input"
    /\ cm' = [cm EXCEPT !.pc = "mapped",
                        !.result = mapToGrid(cm.beads, cm.gridSpacing)]
    /\ UNCHANGED <<qz, nq, rc, pp, gd, bs, ca, cc, nm, ag, bk, ed, ld, sv, hk,
                 bd>>

MapperNext == MapToGrid

SpecMapper == MapperInit /\ [][MapperNext]_vars

\* the cell a bead rounds to, from the least x and y of the input
CellOfBead(beads, spacing, b) ==
    LET minX == CHOOSE v \in {beads[k].x : k \in 1..Len(beads)} :
                    \A k \in 1..Len(beads) : v <= beads[k].x
        minY == CHOOSE v \in {beads[k].y : k \in 1..Len(beads)} :
                    \A k \in 1..Len(beads) : v <= beads[k].y
    IN [row |-> JsRound(b.y - minY, spacing), col |-> JsRound(b.x - minX, spacing)]

\* C28: mapToGrid returns at most one bead per (row, col) cell, for each
\* cell the first bead in input order that rounds to it, in strictly
\* increasing row-major order, with row = round((y - minY) / spacing) and
\* col = round((x - minX) / spacing); every row and column is >= 0 and
\* row 0 and column 0 are both used.
C28_MapToGrid ==
    cm.pc = "mapped" =>
       LET res == cm.result
           beads == cm.beads
           cell(b) == CellOfBead(beads, cm.gridSpacing, b)
       IN /\ Len(beads) = 0 => res = <<>>
          /\ \A i, j \in 1..Len(res) :
                i < j => \/ res[i].row < res[j].row
                         \/ res[i].row = res[j].row /\ res[i].col < res[j].col
          /\ \A k \in 1..Len(res) :
                /\ res[k].row >= 0 /\ res[k].col >= 0
                /\ \E i \in 1..Len(beads) :
                      /\ res[k].bead = beads[i]
                      /\ res[k].pixelX = beads[i].x /\ res[k].pixelY = beads[i].y
                      /\ cell(beads[i]) = [row |-> res[k].row, col |-> res[k].col]
                      /\ \A j \in 1..(i - 1) : cell(beads[j]) # cell(beads[i])
          /\ \A i \in 1..Len(beads) :
                \E k \in 1..Len(res) :
                   cell(beads[i]) = [row |-> res[k].row, col |-> res[k].col]
          /\ Len(beads) > 0 =>
                /\ \E k \in 1..Len(res) : res[k].row = 0
                /\ \E k \in 1..Len(res) : res[k].col = 0

\* three beads given out of row-major order, the first and the third
\* rounding to the same cell, and no bead in cell (0, 0)
C28_Witness ==
    /\ cm.pc = "mapped"
    /\ Len(cm.beads) = 3
    /\ Len(cm.result) = 2
    /\ cm.beads[1].y > cm.beads[2].y
    /\ cm.beads[1] # cm.beads[3]
    /\ \A k \in 1..Len(cm.result) : ~(cm.result[k].row = 0 /\ cm.result[k].col = 0)
    /\ \E k \in 1..Len(cm.result) : cm.result[k].bead = cm.beads[1]
    /\ CellOfBead(cm.beads, cm.gridSpacing, cm.beads[3])
          = CellOfBead(cm.beads, cm.gridSpacing, cm.beads[1])


\* ---------------------------------------------------------------------
\* useBeadRecognition: the hook's state under several recognize calls
\* (src/hooks/useBeadRecognition.ts).  The hook does not refuse a call
\* while another one is running; every call is an async function of its
\* own that stops at `await loadOpenCV()` and at
\* `await controller.recognize(file, db)`.  A result is named by the call
\* that produced it; overlapped records that some call was started while
\* another had not returned.
MaxHookCalls == 3

HookResult(call, success) == [call |-> call, success |-> success]

HookInit ==
    /\ hk = [pc |-> "mounted", result |-> None, progress |-> 0, stage |-> "",
             loading |-> FALSE, error |-> FALSE, opencvReady |-> FALSE,
             calls |-> <<>>, overlapped |-> FALSE]
    /\ qz = Idle /\ nq = Idle /\ rc = Idle /\ pp = Idle /\ gd = Idle
    /\ bs = Idle /\ ca = Idle /\ cc = Idle /\ nm = Idle /\ ag = Idle
    /\ bk = Idle /\ ed = Idle /\ ld = Idle /\ sv = Idle /\ cm = Idle
    /\ bd = Idle

OthersUnchangedHk == UNCHANGED <<qz, nq, rc, pp, gd, bs, ca, cc, nm, ag, bk, ed, ld, sv, cm,
                 bd>>

\* recognize(file) up to `await loadOpenCV()`
HookRecognize ==
    /\ hk.pc = "mounted"
    /\ Len(hk.calls) < MaxHookCalls
    /\ hk' = [hk EXCEPT !.loading = TRUE, !.error = FALSE, !.result = None,
                        !.progress = 0, !.stage = "prepare",
                        !.calls = Append(@, "awaitOpenCV"),
                        !.overlapped = @ \/ \E i \in 1..Len(hk.calls) :
                                                hk.calls[i] # "returned"]
    /\ OthersUnchangedHk

\* loadOpenCV() resolved: setOpencvReady(true), the controller is built
\* and started
HookOpenCVLoaded ==
    /\ hk.pc = "mounted"
    /\ \E i \in 1..Len(hk.calls) :
          /\ hk.calls[i] = "awaitOpenCV"
          /\ hk' = [hk EXCEPT !.opencvReady = TRUE,
                              !.calls = [@ EXCEPT ![i] = "awaitController"]]
    /\ OthersUnchangedHk

\* controller.onProgress callback of a running call
HookOnProgress ==
    /\ hk.pc = "mounted"
    /\ \E i \in 1..Len(hk.calls) :
          /\ hk.calls[i] = "awaitController"
          /\ hk' = [hk EXCEPT !.progress = 50, !.stage = "pipeline"]
    /\ OthersUnchangedHk

\* controller.recognize resolved with res: setResult(res), setError when
\* res is a failure, then the finally block
HookControllerResolved ==
    /\ hk.pc = "mounted"
    /\ \E i \in 1..Len(hk.calls) : \E success \in BOOLEAN :
          /\ hk.calls[i] = "awaitController"
          /\ hk' = [hk EXCEPT !.result = HookResult(i, success),
                              !.error = IF success THEN @ ELSE TRUE,
                              !.loading = FALSE, !.progress = 100, !.stage = "done",
                              !.calls = [@ EXCEPT ![i] = "returned"]]
    /\ OthersUnchangedHk

\* loadOpenCV() or controller.recognize rejected: the catch block sets
\* the error and a failure result, then the finally block
HookRejected ==
    /\ hk.pc = "mounted"
    /\ \E i \in 1..Len(hk.calls) :
          /\ hk.calls[i] \in {"awaitOpenCV", "awaitController"}
          /\ hk' = [hk EXCEPT !.result = HookResult(i, FALSE),
                              !.error = TRUE,
                              !.loading = FALSE, !.progress = 100, !.stage = "done",
                              !.calls = [@ EXCEPT ![i] = "returned"]]
    /\ OthersUnchangedHk

HookNext ==
    \/ HookRecognize
    \/ HookOpenCVLoaded
    \/ HookOnProgress
    \/ HookControllerResolved
    \/ HookRejected

SpecHook == HookInit /\ [][HookNext]_vars

CallInFlight ==
    hk.pc = "mounted" /\ \E i \in 1..Len(hk.calls) : hk.calls[i] # "returned"

\* C29: loading is true exactly while some recognize call is in flight,
\* and a result that is set is the outcome of the call started last (and
\* is set once no call is in flight after at least one call).
C29_LoadingTracksCalls ==
    hk.pc = "mounted" =>
       /\ hk.loading = CallInFlight
       /\ hk.result # None => hk.result.call = Len(hk.calls)
       /\ (~CallInFlight /\ Len(hk.calls) > 0) => hk.result # None

\* calls that do not overlap: loading follows the one call and the result
\* is that call's outcome (what the page's disabled button allows)
C29_SequentialCallsAgree ==
    (hk.pc = "mounted" /\ ~hk.overlapped)
       => /\ hk.loading = CallInFlight
          /\ hk.result # None => hk.result.call = Len(hk.calls)


\* ---------------------------------------------------------------------
\* BeadDetector.detect and the detector's accumulatorThreshold
\* (src/bead-recognition/beadDetector.ts, lines 1-219).  detect has no
\* await inside, so one call runs from entry to exit in one step.  What
\* OpenCV does is an input of the call: cv may be undefined, each
\* HoughCircles pass either throws or yields a number of circles.
MaxDetectCalls == 3

DefaultAccumulatorThreshold == 18
RetryBelow == 15
RelaxedCeiling == 12
RelaxedStep == 6

\* a pass throws, or reports a number of circles: none, too few, enough
HoughOutcomes ==
    {[threw |-> TRUE, count |-> 0]}
       \cup {[threw |-> FALSE, count |-> n] : n \in {0, 1, RetryBelow - 1, RetryBelow}}

\* Math.min(12, savedParam2 - 6)
RelaxedThreshold(savedParam2) ==
    IF RelaxedCeiling < savedParam2 - RelaxedStep
    THEN RelaxedCeiling ELSE savedParam2 - RelaxedStep

\* detect(imageData) on a detector whose threshold is `threshold`: the
\* threshold the detector is left with, how the call exits, the number of
\* circles kept and the thresholds the passes ran with
detect(threshold, cvDefined, first, retry) ==
    IF ~cvDefined
    THEN [threshold |-> threshold, exit |-> "threw", circles |-> 0, passes |-> <<>>]
    ELSE IF first.threw
    THEN [threshold |-> threshold, exit |-> "threw", circles |-> 0,
          passes |-> <<threshold>>]
    ELSE IF first.count > 0 /\ first.count < RetryBelow
    THEN LET savedParam2 == threshold
             relaxed == RelaxedThreshold(savedParam2)
         IN IF retry.threw
            THEN [threshold |-> relaxed, exit |-> "threw", circles |-> 0,
                  passes |-> <<savedParam2, relaxed>>]
            ELSE [threshold |-> savedParam2, exit |-> "returned",
                  circles |-> IF retry.count > first.count
                              THEN retry.count ELSE first.count,
                  passes |-> <<savedParam2, relaxed>>]
    ELSE [threshold |-> threshold, exit |-> "returned", circles |-> first.count,
          passes |-> <<threshold>>]

\* new BeadDetector(config): the default threshold or one given by the
\* caller
DetectorInit ==
    /\ \E threshold \in {DefaultAccumulatorThreshold, 30, 10} :
          bd = [pc |-> "constructed", accumulatorThreshold |-> threshold,
                configured |-> threshold, before |-> threshold, exit |-> "none",
                circles |-> 0, passes |-> <<>>, calls |-> 0]
    /\ qz = Idle /\ nq = Idle /\ rc = Idle /\ pp = Idle /\ gd = Idle
    /\ bs = Idle /\ ca = Idle /\ cc = Idle /\ nm = Idle /\ ag = Idle
    /\ bk = Idle /\ ed = Idle /\ ld = Idle /\ sv = Idle /\ cm = Idle
    /\ hk = Idle

Detect ==
    /\ bd.pc \in {"constructed", "exited"}
    /\ bd.calls < MaxDetectCalls
    /\ \E cvDefined \in BOOLEAN : \E first, retry \in HoughOutcomes :
          LET out == detect(bd.accumulatorThreshold, cvDefined, first, retry)
          IN bd' = [bd EXCEPT !.pc = "exited",
                              !.before = bd.accumulatorThreshold,
                              !.accumulatorThreshold = out.threshold,
                              !.exit = out.exit,
                              !.circles = out.circles,
                              !.passes = out.passes,
                              !.calls = @ + 1]
    /\ UNCHANGED <<qz, nq, rc, pp, gd, bs, ca, cc, nm, ag, bk, ed, ld, sv, cm, hk>>

DetectorNext == Detect

SpecDetect == DetectorInit /\ [][DetectorNext]_vars

\* C30: on every exit of detect, by return or by throw, the detector's
\* accumulatorThreshold equals its value before the call, so every call
\* on one detector starts from the threshold it was constructed with.
C30_ThresholdRestored ==
    bd.pc = "exited" =>
       /\ bd.accumulatorThreshold = bd.before
       /\ bd.before = bd.configured

\* a call that returns leaves the threshold as it found it, also when the
\* relaxed pass ran
C30_RestoredOnReturn ==
    (bd.pc = "exited" /\ bd.exit = "returned")
       => bd.accumulatorThreshold = bd.before

====
